---- MODULE Spec2Model ----
(***************************************************************************)
(* Terminal session interception engine of the llm command-line client:   *)
(* RingBuffer, SessionHistory, the OSC 133 SessionParser, the input        *)
(* interception loop and the runSession task structure.                    *)
(*                                                                         *)
(* Strings are sequences of byte values (naturals), so that splitting,     *)
(* trimming, scanning and escape stripping are computed byte by byte as    *)
(* the Go code computes them.  Go slices are 0-based; the operators below  *)
(* keep Go's offsets in their parameters and translate to TLA+'s 1-based   *)
(* sequences inside.                                                       *)
(***************************************************************************)
EXTENDS Integers, Sequences, FiniteSets, TLC

(***************************************************************************)
(* Bounds of the model.                                                    *)
(***************************************************************************)
\* largest RingBuffer capacity tried
MaxRBSize == 3
\* longest single Write tried (longer than the largest capacity)
MaxWrite == 4
\* total number of bytes written to one RingBuffer
MaxTotal == 6
\* RingBuffer payload bytes are drawn from 1..NumBytes
NumBytes == 2

(***************************************************************************)
(* Generic helpers.                                                        *)
(***************************************************************************)
Min(a, b) == IF a <= b THEN a ELSE b

Max(a, b) == IF a >= b THEN a ELSE b

\* all sequences over S of length 0..n
SeqsUpTo(S, n) == UNION {[1..k -> S] : k \in 0..n}

\* Go's s[from:to] with 0-based, half-open offsets
Slice(s, from, to) == SubSeq(s, from + 1, to)

\* the last k elements of s (all of s when k >= Len(s))
LastN(s, k) == SubSeq(s, Len(s) - Min(k, Len(s)) + 1, Len(s))

\* Go's copy(dst[off:], src): overwrites min(len(src), len(dst)-off) elements
Copy(dst, off, src) ==
    [i \in 1..Len(dst) |->
        IF i > off /\ i - off <= Len(src) THEN src[i - off] ELSE dst[i]]

\* make([]byte, n): n zero bytes
MakeBytes(n) == [i \in 1..n |-> 0]

(***************************************************************************)
(* RingBuffer                                                              *)
(***************************************************************************)
VARIABLES
    rb,        \* the RingBuffer: [data, size, pos, full]
    written,   \* history variable: concatenation of everything written to rb
    rbN        \* n, the value the last Write of the RingBuffer specification
               \* returned: the length of its payload

rbVars == <<rb, written>>

NewRingBuffer(size) ==
    [data |-> MakeBytes(size), size |-> size, pos |-> 0, full |-> FALSE]

\* a Write that forgets to reset the cursor on an oversized write
RBWriteKeepPos(r, p) ==
    LET n == Len(p) IN
    IF n > r.size
    THEN [r EXCEPT !.full = TRUE,
                   !.data = Copy(r.data, 0, Slice(p, n - r.size, n))]
    ELSE LET remaining == r.size - r.pos IN
         IF n <= remaining
         THEN [r EXCEPT !.data = Copy(r.data, r.pos, p), !.pos = r.pos + n]
         ELSE [r EXCEPT !.data = Copy(Copy(r.data, r.pos, Slice(p, 0, remaining)),
                                      0, Slice(p, remaining, n)),
                        !.pos = n - remaining,
                        !.full = TRUE]

\* a Write that advances the cursor modulo size and marks the buffer full
\* as soon as the cursor reaches the end
RBWriteModulo(r, p) ==
    LET n == Len(p) IN
    IF n > r.size
    THEN [r EXCEPT !.pos = 0,
                   !.full = TRUE,
                   !.data = Copy(r.data, 0, Slice(p, n - r.size, n))]
    ELSE LET remaining == r.size - r.pos IN
         IF n <= remaining
         THEN [r EXCEPT !.data = Copy(r.data, r.pos, p),
                        !.pos = (r.pos + n) % r.size,
                        !.full = r.full \/ r.pos + n = r.size]
         ELSE [r EXCEPT !.data = Copy(Copy(r.data, r.pos, Slice(p, 0, remaining)),
                                      0, Slice(p, remaining, n)),
                        !.pos = n - remaining,
                        !.full = TRUE]

RBWrite(r, p) ==
    LET n == Len(p) IN
    IF n > r.size
    THEN \* more than size: keep the last size bytes
         [r EXCEPT !.pos = 0,
                   !.full = TRUE,
                   !.data = Copy(r.data, 0, Slice(p, n - r.size, n))]
    ELSE LET remaining == r.size - r.pos IN
         IF n <= remaining
         THEN [r EXCEPT !.data = Copy(r.data, r.pos, p), !.pos = r.pos + n]
         ELSE [r EXCEPT !.data = Copy(Copy(r.data, r.pos, Slice(p, 0, remaining)),
                                      0, Slice(p, remaining, n)),
                        !.pos = n - remaining,
                        !.full = TRUE]

RBString(r) ==
    IF ~r.full
    THEN Slice(r.data, 0, r.pos)
    ELSE Copy(Copy(MakeBytes(r.size), 0, Slice(r.data, r.pos, r.size)),
              r.size - r.pos, Slice(r.data, 0, r.pos))

RBInit ==
    /\ \E size \in 1..MaxRBSize : rb = NewRingBuffer(size)
    /\ written = <<>>
    /\ rbN = 0

\* rb.Write(p) for a payload p of any length 0..MaxWrite
RBWriteStep ==
    \E p \in SeqsUpTo(1..NumBytes, Min(MaxWrite, MaxTotal - Len(written))) :
        /\ rb' = RBWrite(rb, p)
        /\ written' = written \o p
        /\ rbN' = Len(p)

\* C1: String() is exactly the last min(size, total written) bytes of the
\* concatenation of all writes, in write order; capacity 5 with writes "123"
\* then "456" gives "23456", and one write "1234567890" gives "67890".
C1_LastBytes ==
    /\ RBString(rb) = LastN(written, rb.size)
    /\ Len(written) <= rb.size => RBString(rb) = written
    /\ RBString(RBWrite(RBWrite(NewRingBuffer(5), <<49, 50, 51>>), <<52, 53, 54>>))
         = <<50, 51, 52, 53, 54>>
    /\ RBString(RBWrite(NewRingBuffer(5), <<49, 50, 51, 52, 53, 54, 55, 56, 57, 48>>))
         = <<54, 55, 56, 57, 48>>

\* a buffer that has wrapped in the middle of a write and then taken more
C1_Witness ==
    /\ rb.full /\ rb.pos > 0 /\ rb.pos < rb.size
    /\ Len(written) > rb.size + 1

(***************************************************************************)
(* Byte strings: the library functions the session code calls.            *)
(***************************************************************************)
ESC == 27

BEL == 7

\* strings.HasPrefix
HasPrefix(s, prefix) ==
    Len(s) >= Len(prefix) /\ SubSeq(s, 1, Len(prefix)) = prefix

\* strings.Index: 0-based offset of the first occurrence of sub in s, or -1
IndexOf(s, sub) ==
    LET at == {i \in 0..(Len(s) - Len(sub)) : Slice(s, i, i + Len(sub)) = sub}
    IN IF at = {} THEN -1 ELSE CHOOSE i \in at : \A j \in at : i <= j

\* strings.Split for a non-empty separator
RECURSIVE Split(_, _)
Split(s, sep) ==
    LET i == IndexOf(s, sep) IN
    IF i = -1
    THEN <<s>>
    ELSE <<Slice(s, 0, i)>> \o Split(Slice(s, i + Len(sep), Len(s)), sep)

\* unicode.IsSpace on ASCII: \t \n \v \f \r and space
IsSpace(b) == b \in {9, 10, 11, 12, 13, 32}

\* strings.TrimSpace
TrimSpace(s) ==
    LET keep == {i \in 1..Len(s) : ~IsSpace(s[i])}
    IN IF keep = {} THEN <<>>
       ELSE SubSeq(s, CHOOSE i \in keep : \A j \in keep : i <= j,
                      CHOOSE i \in keep : \A j \in keep : i >= j)

\* strings.TrimPrefix
TrimPrefix(s, prefix) ==
    IF HasPrefix(s, prefix) THEN SubSeq(s, Len(prefix) + 1, Len(s)) ELSE s

\* the first position k >= j of s whose byte is not in S (Len(s)+1 if none)
SkipWhile(s, j, S) ==
    CHOOSE k \in j..(Len(s) + 1) :
        /\ k = Len(s) + 1 \/ s[k] \notin S
        /\ \A m \in j..(k - 1) : s[m] \in S

IsDigit(b) == b \in 48..57

\* value of a string of decimal digits
RECURSIVE DecVal(_)
DecVal(ds) ==
    IF ds = <<>> THEN 0
    ELSE 10 * DecVal(SubSeq(ds, 1, Len(ds) - 1)) + (ds[Len(ds)] - 48)

\* fmt.Sscanf(s, "%d", &v) with v preset to `preset`: blanks are skipped (a
\* newline is an error), one sign is accepted, then at least one digit is
\* needed; the scan stops at the first non-digit; on an error v is untouched.
SscanfInt(s, preset) ==
    LET i == SkipWhile(s, 1, {9, 11, 12, 13, 32})
        signed == i <= Len(s) /\ s[i] \in {43, 45}
        j == IF signed THEN i + 1 ELSE i
        k == SkipWhile(s, j, 48..57)
    IN IF k = j THEN preset
       ELSE IF signed /\ s[i] = 45 THEN 0 - DecVal(SubSeq(s, j, k - 1))
       ELSE DecVal(SubSeq(s, j, k - 1))

\* length of the match of \x1B(?:[@-Z\\-_]|\[[0-?]*[ -/]*[@-~]) that starts
\* at position i of s, 0 when there is none.  The three classes of the CSI
\* alternative are disjoint, so the greedy match is the only match.
AnsiMatchLen(s, i) ==
    IF s[i] # ESC \/ i + 1 > Len(s) THEN 0
    ELSE IF s[i + 1] \in (64..90) \cup (92..95) THEN 2
    ELSE IF s[i + 1] # 91 THEN 0
    ELSE LET j == SkipWhile(s, i + 2, 48..63)
             k == SkipWhile(s, j, 32..47)
         IN IF k <= Len(s) /\ s[k] \in 64..126 THEN k - i + 1 ELSE 0

\* ReplaceAllString(input, ""): leftmost matches, left to right, one pass
RECURSIVE CleanFrom(_, _)
CleanFrom(s, i) ==
    IF i > Len(s) THEN <<>>
    ELSE LET m == AnsiMatchLen(s, i) IN
         IF m > 0 THEN CleanFrom(s, i + m)
         ELSE <<s[i]>> \o CleanFrom(s, i + 1)

cleanTerminalOutput(input) == CleanFrom(input, 1)

(***************************************************************************)
(* SessionHistory                                                          *)
(*                                                                         *)
(* A CommandEvent is [Command, Output, ExitCode]; its Timestamp (time.Now) *)
(* is read by nothing and is left out.  A nil slice and an empty slice are *)
(* both the empty sequence.                                                *)
(***************************************************************************)
VARIABLES
    history,   \* the SessionHistory: [Events, currentInput, currentOutput]
    q          \* the last GetLastEvents call: [n, at, res], at = len(Events) then

\* number of events appended in the history-only specification
MaxHistEvents == 3

NewSessionHistory ==
    [Events |-> <<>>, currentInput |-> <<>>, currentOutput |-> <<>>]

AddEvent(h, cmd, output, exitCode) ==
    [h EXCEPT !.Events = Append(@, [Command |-> cmd, Output |-> output,
                                    ExitCode |-> exitCode])]

\* a GetLastEvents that slices from the front
GetFirstEvents(h, n) ==
    IF Len(h.Events) = 0 THEN <<>>
    ELSE IF n > Len(h.Events) THEN h.Events
    ELSE Slice(h.Events, 0, n)

GetLastEvents(h, n) ==
    IF Len(h.Events) = 0 THEN <<>>
    ELSE IF n > Len(h.Events) THEN h.Events
    ELSE Slice(h.Events, Len(h.Events) - n, Len(h.Events))

HistInit ==
    /\ history = NewSessionHistory
    /\ q = [n |-> 0, at |-> 0, res |-> <<>>]

\* the events the history-only specification appends
SampleEvents ==
    {[Command |-> c, Output |-> <<>>, ExitCode |-> x] : c \in {<<97>>, <<98>>}, x \in {0, 1}}

HistAdd ==
    /\ Len(history.Events) < MaxHistEvents
    /\ \E e \in SampleEvents :
         history' = AddEvent(history, e.Command, e.Output, e.ExitCode)
    /\ UNCHANGED q

HistQuery ==
    \E n \in 0..(MaxHistEvents + 2) :
        /\ q' = [n |-> n, at |-> Len(history.Events),
                 res |-> GetLastEvents(history, n)]
        /\ UNCHANGED history

\* C9: GetLastEvents(k) with N events appended returns, for 0 <= k <= N, exactly
\* the k most recently appended events in append order; for k > N all N events
\* in append order; and nothing on an empty store.
C9_GetLastEvents ==
    LET N == q.at
        k == q.n
    IN /\ N <= Len(history.Events)
       /\ k <= N => /\ Len(q.res) = k
                    /\ \A i \in 1..k : q.res[i] = history.Events[N - k + i]
       /\ k > N => q.res = SubSeq(history.Events, 1, N)
       /\ N = 0 => q.res = <<>>

\* a query for fewer events than the store holds, more than one of them
C9_Witness ==
    /\ q.n >= 2 /\ q.n < q.at
    /\ q.res = SubSeq(history.Events, q.at - q.n + 1, q.at)
    /\ q.res[1] # q.res[2]

\* a query for more events than the store holds
C9_WitnessAll == q.n > q.at /\ q.at >= 2 /\ Len(q.res) = q.at

(***************************************************************************)
(* SessionParser (OSC 133)                                                 *)
(*                                                                         *)
(* A parser value is [state, history]: the parser's state and the          *)
(* SessionHistory it points to.  The parser's own buf field is never       *)
(* touched by the code and is left out.                                    *)
(***************************************************************************)
VARIABLES
    pstate     \* SessionParser.state

OSC_START == <<27, 93, 49, 51, 51, 59>>   \* "\x1b]133;"

OSC_END == <<BEL>>                        \* "\x07"

StateNone == "StateNone"

StatePrompt == "StatePrompt"

StateInput == "StateInput"

StateOutput == "StateOutput"

ParserStates == {StateNone, StatePrompt, StateInput, StateOutput}

NewSessionParser(hist) == [state |-> StateNone, history |-> hist]

\* a routing that also keeps what arrives while no command runs
appendToCurrentStateKeepAll(p, s) ==
    IF p.state = StateOutput
    THEN [p EXCEPT !.history.currentOutput = @ \o s]
    ELSE [p EXCEPT !.history.currentInput = @ \o s]

\* a routing that captures the prompt text as well
appendToCurrentStatePromptToo(p, s) ==
    IF p.state = StateOutput
    THEN [p EXCEPT !.history.currentOutput = @ \o s]
    ELSE IF p.state \in {StateInput, StatePrompt}
    THEN [p EXCEPT !.history.currentInput = @ \o s]
    ELSE p

appendToCurrentState(p, s) ==
    IF p.state = StateOutput
    THEN [p EXCEPT !.history.currentOutput = @ \o s]
    ELSE IF p.state = StateInput
    THEN [p EXCEPT !.history.currentInput = @ \o s]
    ELSE p   \* StatePrompt: ignored; StateNone: no case

\* a D branch that records an event whatever the buffers hold
finishCommandAlways(p, code) ==
    LET parts == Split(code, <<59>>)
        exitCode == IF Len(parts) > 1 THEN SscanfInt(parts[2], 0) ELSE 0
        h == AddEvent(p.history, TrimSpace(p.history.currentInput),
                      cleanTerminalOutput(p.history.currentOutput), exitCode)
    IN [state |-> StateNone,
        history |-> [h EXCEPT !.currentInput = <<>>, !.currentOutput = <<>>]]

\* the D branch of handleTransition
finishCommand(p, code) ==
    LET parts == Split(code, <<59>>)
        exitCode == IF Len(parts) > 1 THEN SscanfInt(parts[2], 0) ELSE 0
        cmd == TrimSpace(p.history.currentInput)
        out == cleanTerminalOutput(p.history.currentOutput)
        h == IF cmd # <<>> \/ out # <<>>
             THEN AddEvent(p.history, cmd, out, exitCode)
             ELSE p.history
    IN [state |-> StateNone,
        history |-> [h EXCEPT !.currentInput = <<>>, !.currentOutput = <<>>]]

\* a handleTransition that finalises the event as soon as the output starts
handleTransitionEventOnC(p, code) ==
    IF code = <<65>> THEN [p EXCEPT !.state = StatePrompt]
    ELSE IF code = <<67>>
    THEN [state |-> StateOutput,
          history |-> [AddEvent(p.history, TrimSpace(p.history.currentInput), <<>>, 0)
                         EXCEPT !.currentOutput = <<>>]]
    ELSE IF HasPrefix(code, <<68>>) THEN finishCommand(p, code)
    ELSE IF code = <<66>>
    THEN [p EXCEPT !.state = StateInput, !.history.currentInput = <<>>]
    ELSE p

\* a handleTransition whose C branch forgets to switch to StateOutput
handleTransitionCStays(p, code) ==
    IF code = <<65>> THEN [p EXCEPT !.state = StatePrompt]
    ELSE IF code = <<67>> THEN [p EXCEPT !.history.currentOutput = <<>>]
    ELSE IF HasPrefix(code, <<68>>) THEN finishCommand(p, code)
    ELSE IF code = <<66>>
    THEN [p EXCEPT !.state = StateInput, !.history.currentInput = <<>>]
    ELSE p

\* a handleTransition whose B branch keeps what currentInput held
handleTransitionBKeeps(p, code) ==
    IF code = <<65>> THEN [p EXCEPT !.state = StatePrompt]
    ELSE IF code = <<67>>
    THEN [p EXCEPT !.state = StateOutput, !.history.currentOutput = <<>>]
    ELSE IF HasPrefix(code, <<68>>) THEN finishCommand(p, code)
    ELSE IF code = <<66>> THEN [p EXCEPT !.state = StateInput]
    ELSE p

handleTransition(p, code) ==
    IF code = <<65>>                          \* "A": start of prompt
    THEN [p EXCEPT !.state = StatePrompt]
    ELSE IF code = <<67>>                     \* "C": start of output
    THEN [p EXCEPT !.state = StateOutput, !.history.currentOutput = <<>>]
    ELSE IF HasPrefix(code, <<68>>)           \* "D...": end of command
    THEN finishCommand(p, code)
    ELSE IF code = <<66>>                     \* "B": end of prompt
    THEN [p EXCEPT !.state = StateInput, !.history.currentInput = <<>>]
    ELSE p

\* a loop that throws an unterminated introducer and its part away
RECURSIVE ParsePartsDropBroken(_, _, _)
ParsePartsDropBroken(p, parts, i) ==
    IF i > Len(parts) THEN p
    ELSE LET part == parts[i]
             endIdx == IndexOf(part, OSC_END)
         IN IF endIdx = -1
            THEN ParsePartsDropBroken(p, parts, i + 1)
            ELSE LET codeAndArgs == Slice(part, 0, endIdx)
                     content == Slice(part, endIdx + 1, Len(part))
                 IN ParsePartsDropBroken(
                        appendToCurrentState(handleTransition(p, codeAndArgs), content),
                        parts, i + 1)

\* the loop of ParseChunk over parts[1:], from index i (1-based) on
RECURSIVE ParseParts(_, _, _)
ParseParts(p, parts, i) ==
    IF i > Len(parts) THEN p
    ELSE LET part == parts[i]
             endIdx == IndexOf(part, OSC_END)
         IN IF endIdx = -1
            THEN \* no terminator in this chunk: back as raw text
                 ParseParts(appendToCurrentState(p, OSC_START \o part), parts, i + 1)
            ELSE LET codeAndArgs == Slice(part, 0, endIdx)
                     content == Slice(part, endIdx + 1, Len(part))
                 IN ParseParts(appendToCurrentState(handleTransition(p, codeAndArgs),
                                                    content),
                               parts, i + 1)

\* a ParseChunk that strips the white space at the head of every chunk
ParseChunkTrimsHead(p, chunk) ==
    LET parts == Split(chunk, OSC_START) IN
    IF Len(parts) = 1
    THEN appendToCurrentState(p, TrimSpace(chunk))
    ELSE ParseParts(appendToCurrentState(p, TrimSpace(parts[1])), parts, 2)

ParseChunk(p, chunk) ==
    LET parts == Split(chunk, OSC_START) IN
    IF Len(parts) = 1
    THEN appendToCurrentState(p, chunk)
    ELSE ParseParts(appendToCurrentState(p, parts[1]), parts, 2)

(***************************************************************************)
(* Feeding the parser: chunks of PTY output.                               *)
(*                                                                         *)
(* A chunk is written down as a sequence of pieces (a complete marker, a   *)
(* run of text, an introducer with no terminator) and handed to ParseChunk *)
(* as the bytes the pieces spell.  The pieces are what the shell meant;    *)
(* the history variable pg follows them without looking at the parser.     *)
(***************************************************************************)
VARIABLES
    pg         \* history variable: [feeds, chunk, pre, phase, nD, nComplete];
               \* chunk is the last chunk fed, pre the parser before it

\* number of ParseChunk calls in the free-feeding specification
MaxFeeds == 3

Marker(code) == OSC_START \o code \o OSC_END

MarkerPiece(code) == [kind |-> "marker", code |-> code, bytes |-> Marker(code)]

TextPiece(bytes) == [kind |-> "text", code |-> <<>>, bytes |-> bytes]

\* an introducer and a code with no terminator after them
BrokenPiece(code) == [kind |-> "broken", code |-> code, bytes |-> OSC_START \o code]

PcA == MarkerPiece(<<65>>)

PcB == MarkerPiece(<<66>>)

PcC == MarkerPiece(<<67>>)

PcD == MarkerPiece(<<68>>)

PcD0 == MarkerPiece(<<68, 59, 48>>)

PcD1 == MarkerPiece(<<68, 59, 49>>)

TxA == TextPiece(<<97>>)              \* "a"

TxSpace == TextPiece(<<32>>)          \* " "

TxColor == TextPiece(<<27, 91, 109>>) \* ESC [ m

TxBel == TextPiece(<<BEL>>)           \* a bell on its own

PcE == MarkerPiece(<<69>>)            \* a marker no branch knows: "E"

PcDx == MarkerPiece(<<68, 120>>)      \* "Dx": not D, not D;<n>

\* the chunks the free-feeding specification draws from
Catalogue ==
    { <<PcA>>, <<PcB>>, <<PcC>>, <<PcD>>, <<PcD1>>,
      <<TxA>>, <<TxSpace>>, <<TxColor>>, <<BrokenPiece(<<67>>)>>,
      <<PcB, TxA>>, <<PcC, TxA>>, <<TxA, PcD1>>, <<PcD0, PcA>>,
      <<TxBel>>, <<PcE>>, <<PcDx>>, <<BrokenPiece(<<67>>), PcB>> }

RECURSIVE Flatten(_)
Flatten(pieces) ==
    IF pieces = <<>> THEN <<>> ELSE Head(pieces).bytes \o Flatten(Tail(pieces))

IsDPiece(pc) == pc.kind = "marker" /\ HasPrefix(pc.code, <<68>>)

\* number of D markers a chunk carries
CountD(pieces) == Cardinality({i \in 1..Len(pieces) : IsDPiece(pieces[i])})

\* pg after the pieces of one chunk: phase is 0 after A or D, 1 once B was
\* seen, 2 once C followed B; a D seen in phase 2 ends a complete lifecycle
RECURSIVE Track(_, _)
Track(g, pieces) ==
    IF pieces = <<>> THEN g
    ELSE LET pc == Head(pieces)
             g2 == IF pc.kind # "marker" THEN g
                   ELSE IF IsDPiece(pc)
                   THEN [g EXCEPT !.nD = @ + 1,
                                  !.nComplete = IF g.phase = 2 THEN @ + 1 ELSE @,
                                  !.phase = 0]
                   ELSE IF pc.code = <<65>> THEN [g EXCEPT !.phase = 0]
                   ELSE IF pc.code = <<66>> THEN [g EXCEPT !.phase = 1]
                   ELSE IF pc.code = <<67>>
                   THEN [g EXCEPT !.phase = IF g.phase >= 1 THEN 2 ELSE 0]
                   ELSE g
         IN Track(g2, Tail(pieces))

parserVars == <<history, pstate, pg>>

PgInit ==
    pg = [feeds |-> 0, chunk |-> <<>>, pre |-> NewSessionParser(NewSessionHistory),
          phase |-> 0, nD |-> 0, nComplete |-> 0]

ParserInit ==
    /\ history = NewSessionHistory
    /\ pstate = NewSessionParser(NewSessionHistory).state
    /\ PgInit

\* parser.ParseChunk(chunk) for any chunk of the catalogue
ParseStep ==
    /\ pg.feeds < MaxFeeds
    /\ \E c \in Catalogue :
         LET p2 == ParseChunk([state |-> pstate, history |-> history], Flatten(c))
         IN /\ pstate' = p2.state
            /\ history' = p2.history
            /\ pg' = Track([pg EXCEPT !.feeds = @ + 1, !.chunk = c,
                                       !.pre = [state |-> pstate, history |-> history]],
                            c)

(***************************************************************************)
(* One command lifecycle fed to a fresh parser, one chunk per step:        *)
(* A, prompt text, B, command text, C, output text, D.                     *)
(***************************************************************************)
VARIABLES
    lc         \* [step, cmd, out, expect]: the step reached and the texts fed

\* printf "%d" of a number >= 0, as the integration scripts print $?
RECURSIVE Digits(_)
Digits(n) == IF n < 10 THEN <<48 + n>> ELSE Digits(n \div 10) \o <<48 + (n % 10)>>

PromptTexts == {<<>>, <<36, 32>>, <<27, 91, 109, 36>>}

\* "", " ", "a", " a ", "a b", "echo hello"
CmdTexts ==
    {<<>>, <<32>>, <<97>>, <<32, 97, 32>>, <<97, 32, 98>>,
     <<101, 99, 104, 111, 32, 104, 101, 108, 108, 111>>}

\* "", "a", ESC[m, ESC[m a, "hello\r\n"
OutTexts ==
    {<<>>, <<97>>, <<27, 91, 109>>, <<27, 91, 109, 97>>,
     <<104, 101, 108, 108, 111, 13, 10>>}

\* the D markers fed, each with the exit code the shell meant
DMarkers ==
    {[bytes |-> Marker(<<68, 59>> \o Digits(n)), expect |-> n] : n \in {0, 1, 130}}
    \cup {[bytes |-> Marker(<<68>>), expect |-> 0],
          [bytes |-> Marker(<<68, 59>>), expect |-> 0],
          [bytes |-> Marker(<<68, 59, 120>>), expect |-> 0]}

lifeVars == <<history, pstate, lc>>

LcInit == lc = [step |-> 0, cmd |-> <<>>, out |-> <<>>, expect |-> 0]

LifeInit ==
    /\ history = NewSessionHistory
    /\ pstate = NewSessionParser(NewSessionHistory).state
    /\ LcInit

\* parser.ParseChunk(bytes) as step `step` of the lifecycle
Feed(step, bytes) ==
    LET p2 == ParseChunk([state |-> pstate, history |-> history], bytes)
    IN /\ lc.step = step
       /\ pstate' = p2.state
       /\ history' = p2.history

FeedA == Feed(0, Marker(<<65>>)) /\ lc' = [lc EXCEPT !.step = 1]

FeedPrompt == \E t \in PromptTexts : Feed(1, t) /\ lc' = [lc EXCEPT !.step = 2]

FeedB == Feed(2, Marker(<<66>>)) /\ lc' = [lc EXCEPT !.step = 3]

FeedCmd == \E t \in CmdTexts : Feed(3, t) /\ lc' = [lc EXCEPT !.step = 4, !.cmd = t]

FeedC == Feed(4, Marker(<<67>>)) /\ lc' = [lc EXCEPT !.step = 5]

FeedOut == \E t \in OutTexts : Feed(5, t) /\ lc' = [lc EXCEPT !.step = 6, !.out = t]

FeedD ==
    \E d \in DMarkers :
        Feed(6, d.bytes) /\ lc' = [lc EXCEPT !.step = 7, !.expect = d.expect]

(***************************************************************************)
(* The input interception loop of runSession.                              *)
(*                                                                         *)
(* inputBuf holds the live prefix inputBuf[:inputIdx] of the code's line   *)
(* buffer; the bytes beyond inputIdx are never read.  The code's buffer    *)
(* has 1024 bytes and its raw history RingBuffer 64 KiB; the model runs    *)
(* both at a small capacity so that a full buffer is reached.              *)
(* ptyIn lists what the loop wrote to the PTY, each byte tagged "fwd" (the *)
(* byte just read, passed on) or "inj" (a byte the loop made up);          *)
(* stdinRead lists what it read, each byte tagged "trig" (the terminator   *)
(* of a line the loop intercepted) or "in".                                *)
(***************************************************************************)
VARIABLES
    inputBuf,  \* inputBuf[:inputIdx]
    inPc,      \* "read": blocked in os.Stdin.Read; "llm": inside runInlineLLM
    ptyIn,     \* history variable: what was written to ptmx, tagged
    stdinRead, \* history variable: what was read from os.Stdin, tagged
    term,      \* history variable: the last line terminator handled
    call,      \* the last runInlineLLM call and what the session held then
    historyMgr \* the global history manager: "set", or "nil" when history.New
               \* failed at start-up

\* capacity of the line buffer (1024 in the code)
InputBufCap == 3
\* capacity of the raw history RingBuffer (64 * 1024 in the code)
SessionRBSize == 3
\* number of bytes read from standard input
MaxReads == 5

\* Ctrl+U, the clear-input-line byte
CtrlU == 21

\* how many recent events the context takes
ContextEvents == 5

\* the bytes typed: ? space tab a, \r \n, DEL, Ctrl+C, Ctrl+D
InBytes == {63, 32, 9, 97, 13, 10, 127, 3, 4}

\* the bytes typed while a line is edited: a, BS, DEL, Ctrl+C, Ctrl+D, \r
EditBytes == {97, 8, 127, 3, 4, 13}

IsTerminator(b) == b = 13 \/ b = 10

\* the trigger test of the loop
IsTrigger(line) == HasPrefix(line, <<63, 63>>) \/ HasPrefix(line, <<32, 63, 63>>)

\* query := TrimSpace(TrimPrefix(TrimSpace(line), "??"))
ExtractQuery(line) == TrimSpace(TrimPrefix(TrimSpace(line), <<63, 63>>))

\* a context that prefers the raw buffer whenever it holds anything
PrepareContextRawFirst(h, r) ==
    LET lastEvents == GetLastEvents(h, ContextEvents) IN
    IF Len(lastEvents) > 0 /\ RBString(r) = <<>>
    THEN [structured |-> TRUE, events |-> lastEvents, raw |-> <<>>]
    ELSE [structured |-> FALSE, events |-> <<>>,
          raw |-> cleanTerminalOutput(RBString(r))]

\* the context string: "Session History (Structured):\n" and one
\* "Command: %s\nExit Code: %d\nOutput:\n%s\n---\n" per event of `events`,
\* or the cleaned raw history
PrepareContext(h, r) ==
    LET lastEvents == GetLastEvents(h, ContextEvents) IN
    IF Len(lastEvents) > 0
    THEN [structured |-> TRUE, events |-> lastEvents, raw |-> <<>>]
    ELSE [structured |-> FALSE, events |-> <<>>,
          raw |-> cleanTerminalOutput(RBString(r))]

\* an interception that passes the terminator on before clearing the line
TriggerWritesForward(b) == <<<<b, "fwd">>, <<CtrlU, "inj">>>>

\* what an interception writes to the PTY before it calls the LLM
TriggerWrites(b) == <<<<CtrlU, "inj">>>>

\* what it writes once the LLM call is over: a \r to redraw the prompt
RedrawWrites == <<<<13, "inj">>>>

\* a normal-char branch that forwards only what it could store
CharWritesIfStored(buf, b) ==
    IF Len(buf) < InputBufCap THEN <<<<b, "fwd">>>> ELSE <<>>

\* what the normal-char branch writes to the PTY
CharWrites(buf, b) == <<<<b, "fwd">>>>

\* a store that does not look at the length of the line buffer
StoreCharUnchecked(buf, b) == Append(buf, b)

\* the normal-char branch's store into the line buffer
StoreChar(buf, b) == IF Len(buf) < InputBufCap THEN Append(buf, b) ELSE buf

\* the backspace branch's inputIdx--
DropLast(buf) == IF Len(buf) > 0 THEN SubSeq(buf, 1, Len(buf) - 1) ELSE buf

\* how a runInlineLLM call ends: the answer was streamed, getRunConfig
\* failed, or llmChat returned an error
LLMOutcomes == {"ok", "configErr", "llmErr"}

\* history.ShellEvent{Type: "session_interception", Query, History}
ShellEvent(query, historyStr) ==
    [Type |-> "session_interception", Query |-> query, History |-> historyStr]

\* a runInlineLLM that logs the interception before it calls the LLM
runInlineLLMLogFirst(query, historyStr, outcome, mgr, saveOk) ==
    [outcome |-> outcome,
     errPrinted |-> outcome # "ok",
     emitted |-> IF mgr = "set" THEN <<ShellEvent(query, historyStr)>> ELSE <<>>,
     persisted |-> mgr = "set" /\ saveOk]

\* what a runInlineLLM call has done when it returns: errPrinted, an
\* "Error ..." line was printed to the terminal; emitted, the ShellEvents
\* handed to historyMgr.SaveShellEvent; persisted, the event reached the
\* JSONL file (saveOk: appendJSONL returned no error, which nothing looks at)
runInlineLLM(query, historyStr, outcome, mgr, saveOk) ==
    [outcome |-> outcome,
     errPrinted |-> outcome # "ok",
     emitted |-> IF outcome = "ok" /\ mgr = "set"
                 THEN <<ShellEvent(query, historyStr)>> ELSE <<>>,
     persisted |-> outcome = "ok" /\ mgr = "set" /\ saveOk]

inputVars == <<inputBuf, inPc, ptyIn, stdinRead, term, call>>

NoResult == [outcome |-> "none", errPrinted |-> FALSE, emitted |-> <<>>,
             persisted |-> FALSE]

NoCall == [n |-> 0, query |-> <<>>,
           context |-> [structured |-> FALSE, events |-> <<>>, raw |-> <<>>],
           evAt |-> 0, rawAt |-> <<>>, ptyAt |-> 0, result |-> NoResult]

\* history.New succeeded or failed before the session began
HistoryMgrInit == historyMgr \in {"set", "nil"}

InputInit ==
    /\ inputBuf = <<>>
    /\ inPc = "read"
    /\ ptyIn = <<>>
    /\ stdinRead = <<>>
    /\ term = [seen |-> FALSE, line |-> <<>>, trig |-> FALSE, byte |-> 0]
    /\ call = NoCall

\* a loop that goes on reading while runInlineLLM runs
CanReadDuringCall == Len(stdinRead) < MaxReads

CanRead == inPc = "read" /\ Len(stdinRead) < MaxReads

\* \r or \n on a trigger line: clear the shell's line, build the context and
\* the query, and enter runInlineLLM
InTrigger(b) ==
    /\ CanRead /\ IsTerminator(b) /\ IsTrigger(inputBuf)
    /\ ptyIn' = ptyIn \o TriggerWrites(b)
    /\ call' = [n |-> call.n + 1,
                query |-> ExtractQuery(inputBuf),
                context |-> PrepareContext(history, rb),
                evAt |-> Len(history.Events),
                rawAt |-> RBString(rb),
                ptyAt |-> Len(ptyIn'),
                result |-> NoResult]
    /\ stdinRead' = Append(stdinRead, <<b, "trig">>)
    /\ term' = [seen |-> TRUE, line |-> inputBuf, trig |-> TRUE, byte |-> b]
    /\ inPc' = "llm"
    /\ UNCHANGED inputBuf

\* a return from runInlineLLM that resets the line only after an answer
InLLMReturnKeepsLine ==
    /\ inPc = "llm"
    /\ \E o \in LLMOutcomes, saveOk \in BOOLEAN :
         /\ call' = [call EXCEPT !.result = runInlineLLM(call.query, call.context, o,
                                                       historyMgr, saveOk)]
         /\ inputBuf' = IF o = "ok" THEN <<>> ELSE inputBuf
    /\ ptyIn' = ptyIn \o RedrawWrites
    /\ inPc' = "read"
    /\ UNCHANGED <<stdinRead, term>>

\* runInlineLLM returns (answer streamed, or an error printed): reset the
\* buffer and force a prompt redraw
InLLMReturn ==
    /\ inPc = "llm"
    /\ \E o \in LLMOutcomes, saveOk \in BOOLEAN :
         call' = [call EXCEPT !.result = runInlineLLM(call.query, call.context, o,
                                                       historyMgr, saveOk)]
    /\ inputBuf' = <<>>
    /\ ptyIn' = ptyIn \o RedrawWrites
    /\ inPc' = "read"
    /\ UNCHANGED <<stdinRead, term>>

\* \r or \n on any other line: pass it through and reset the buffer
InEnter(b) ==
    /\ CanRead /\ IsTerminator(b) /\ ~IsTrigger(inputBuf)
    /\ ptyIn' = Append(ptyIn, <<b, "fwd">>)
    /\ inputBuf' = <<>>
    /\ stdinRead' = Append(stdinRead, <<b, "in">>)
    /\ term' = [seen |-> TRUE, line |-> inputBuf, trig |-> FALSE, byte |-> b]
    /\ UNCHANGED <<inPc, call>>

\* backspace or delete
InBackspace(b) ==
    /\ CanRead /\ (b = 127 \/ b = 8)
    /\ inputBuf' = DropLast(inputBuf)
    /\ ptyIn' = Append(ptyIn, <<b, "fwd">>)
    /\ stdinRead' = Append(stdinRead, <<b, "in">>)
    /\ UNCHANGED <<inPc, term, call>>

\* Ctrl+C
InCtrlC(b) ==
    /\ CanRead /\ b = 3
    /\ inputBuf' = <<>>
    /\ ptyIn' = Append(ptyIn, <<b, "fwd">>)
    /\ stdinRead' = Append(stdinRead, <<b, "in">>)
    /\ UNCHANGED <<inPc, term, call>>

\* Ctrl+D
InCtrlD(b) ==
    /\ CanRead /\ b = 4
    /\ ptyIn' = Append(ptyIn, <<b, "fwd">>)
    /\ stdinRead' = Append(stdinRead, <<b, "in">>)
    /\ UNCHANGED <<inputBuf, inPc, term, call>>

\* any other byte
InChar(b) ==
    /\ CanRead /\ ~IsTerminator(b) /\ b \notin {127, 8, 3, 4}
    /\ inputBuf' = StoreChar(inputBuf, b)
    /\ ptyIn' = ptyIn \o CharWrites(inputBuf, b)
    /\ stdinRead' = Append(stdinRead, <<b, "in">>)
    /\ UNCHANGED <<inPc, term, call>>

(***************************************************************************)
(* The output relay, as far as the context needs it: each chunk read from  *)
(* the PTY goes to the RingBuffer and to the parser.  The shell of this    *)
(* specification prints some plain text and then runs commands under the   *)
(* shell integration, the k-th exiting with status k.  The shipped scripts  *)
(* emit D, A and C; every other command here also carries the B marker of  *)
(* a fuller integration, so that events with and without a command occur.  *)
(***************************************************************************)
VARIABLES
    rk         \* number of chunks relayed

\* number of chunks the shell prints
MaxRelay == 7

\* the k-th chunk of shell output: text first, then one command per chunk,
\* every other one with its echoed command line between B and C
ShellChunk(k) ==
    IF k = 1 THEN <<TxA, TxColor, TxA>>
    ELSE IF k % 2 = 0
    THEN <<PcC, TxA, MarkerPiece(<<68, 59>> \o Digits(k)), PcA>>
    ELSE <<PcB, TxA, PcC, TxColor, MarkerPiece(<<68, 59>> \o Digits(k)), PcA>>

\* io.Copy(mw, ptmx) for one chunk: rawHistoryBuf.Write, then ParseChunk
RelayChunk ==
    /\ rk < MaxRelay
    /\ LET bytes == Flatten(ShellChunk(rk + 1))
           p2 == ParseChunk([state |-> pstate, history |-> history], bytes)
       IN /\ rb' = RBWrite(rb, bytes)
          /\ written' = written \o bytes
          /\ pstate' = p2.state
          /\ history' = p2.history
    /\ rk' = rk + 1

SessionRBInit == rb = NewRingBuffer(SessionRBSize) /\ written = <<>>

(***************************************************************************)
(* runSession: the main task, the shell behind the PTY and the output      *)
(* relay goroutine.                                                        *)
(*                                                                         *)
(* mainPc follows the main goroutine through runSession; its deferred      *)
(* calls run one at a time when it returns, Restore before Close.  The     *)
(* relay is io.Copy(io.MultiWriter(os.Stdout, rawHistoryBuf, parserWriter),*)
(* ptmx): one Read, then one Write per sink in that order.  A terminating  *)
(* signal (SIGTERM, SIGHUP: only SIGWINCH is given to signal.Notify) ends  *)
(* the process at once, and no deferred call runs.                         *)
(***************************************************************************)
VARIABLES
    mainPc,       \* where the main goroutine is
    retErr,       \* what runSession returned: "none" yet, "nil", "error"
    shell,        \* the child shell: "none", "running", "exited"
    ptyOpen,      \* ptmx is open
    closeCount,   \* number of ptmx.Close calls
    termMode,     \* mode of the controlling terminal: "cooked" or "raw"
    restoreCount, \* number of term.Restore calls
    rawAcquired,  \* term.MakeRaw succeeded
    relayPc,      \* the relay goroutine: "none", "read", "stdout", "rb",
                  \* "parser", "done"
    relayChunk,   \* the chunk the relay has read and is writing out
    ptyBuf,       \* shell output the PTY holds, not yet read from ptmx
    shellOut,     \* history variable: everything the shell wrote
    termOut,      \* history variable: everything written to os.Stdout
    parsed        \* history variable: everything handed to ParseChunk

\* number of bytes the shell writes
MaxShellOut == 2

sessVars == <<mainPc, retErr, shell, ptyOpen, closeCount, termMode, restoreCount,
              rawAcquired, relayPc, relayChunk, ptyBuf, shellOut, termOut, parsed>>

SessInit ==
    /\ mainPc = "detect"
    /\ retErr = "none"
    /\ shell = "none"
    /\ ptyOpen = FALSE
    /\ closeCount = 0
    /\ termMode = "cooked"
    /\ restoreCount = 0
    /\ rawAcquired = FALSE
    /\ relayPc = "none"
    /\ relayChunk = <<>>
    /\ ptyBuf = <<>>
    /\ shellOut = <<>>
    /\ termOut = <<>>
    /\ parsed = <<>>

\* the process is running: it has neither left main nor been killed
ProcessAlive == mainPc \notin {"exited", "killed"}

dataVars == <<rb, written, history, pstate>>

\* detectShell found a shell
MainDetect ==
    /\ mainPc = "detect"
    /\ mainPc' = "startPty"
    /\ UNCHANGED <<retErr, shell, ptyOpen, closeCount, termMode, restoreCount,
                   rawAcquired, relayPc, relayChunk, ptyBuf, shellOut, termOut,
                   parsed, dataVars>>

\* detectShell found none: "could not detect shell"
MainDetectFail ==
    /\ mainPc = "detect"
    /\ mainPc' = "returned" /\ retErr' = "error"
    /\ UNCHANGED <<shell, ptyOpen, closeCount, termMode, restoreCount,
                   rawAcquired, relayPc, relayChunk, ptyBuf, shellOut, termOut,
                   parsed, dataVars>>

\* pty.Start(c) succeeded: the shell runs behind ptmx; defer ptmx.Close()
MainStartPty ==
    /\ mainPc = "startPty"
    /\ mainPc' = "notify" /\ ptyOpen' = TRUE /\ shell' = "running"
    /\ UNCHANGED <<retErr, closeCount, termMode, restoreCount, rawAcquired,
                   relayPc, relayChunk, ptyBuf, shellOut, termOut, parsed, dataVars>>

\* pty.Start(c) failed: "failed to start pty"
MainStartPtyFail ==
    /\ mainPc = "startPty"
    /\ mainPc' = "returned" /\ retErr' = "error"
    /\ UNCHANGED <<shell, ptyOpen, closeCount, termMode, restoreCount,
                   rawAcquired, relayPc, relayChunk, ptyBuf, shellOut, termOut,
                   parsed, dataVars>>

\* term.MakeRaw succeeded; defer term.Restore(oldState)
MainMakeRaw ==
    /\ mainPc = "makeRaw"
    /\ mainPc' = "spawn" /\ termMode' = "raw" /\ rawAcquired' = TRUE
    /\ UNCHANGED <<retErr, shell, ptyOpen, closeCount, restoreCount, relayPc,
                   relayChunk, ptyBuf, shellOut, termOut, parsed, dataVars>>

\* a raw-mode failure that returns at once, with no deferred call run
MainMakeRawFailNoClose ==
    /\ mainPc = "makeRaw"
    /\ mainPc' = "returned" /\ retErr' = "error"
    /\ UNCHANGED <<shell, ptyOpen, closeCount, termMode, restoreCount,
                   rawAcquired, relayPc, relayChunk, ptyBuf, shellOut, termOut,
                   parsed, dataVars>>

\* term.MakeRaw failed: return err, with ptmx.Close() left to run
MainMakeRawFail ==
    /\ mainPc = "makeRaw"
    /\ mainPc' = "deferClose" /\ retErr' = "error"
    /\ UNCHANGED <<shell, ptyOpen, closeCount, termMode, restoreCount,
                   rawAcquired, relayPc, relayChunk, ptyBuf, shellOut, termOut,
                   parsed, dataVars>>

\* NewRingBuffer, NewSessionHistory, NewSessionParser and the two go statements
MainSpawn ==
    /\ mainPc = "spawn"
    /\ mainPc' = "wait" /\ relayPc' = "read"
    /\ rb' = NewRingBuffer(SessionRBSize) /\ written' = <<>>
    /\ history' = NewSessionHistory
    /\ pstate' = NewSessionParser(NewSessionHistory).state
    /\ UNCHANGED <<retErr, shell, ptyOpen, closeCount, termMode, restoreCount,
                   rawAcquired, relayChunk, ptyBuf, shellOut, termOut, parsed>>

\* a c.Wait() that does not wait
MainWaitNoWait ==
    /\ mainPc = "wait"
    /\ mainPc' = "deferRestore" /\ retErr' = "nil"
    /\ UNCHANGED <<shell, ptyOpen, closeCount, termMode, restoreCount,
                   rawAcquired, relayPc, relayChunk, ptyBuf, shellOut, termOut,
                   parsed, dataVars>>

\* c.Wait() returns once the shell has exited, whatever its status: return nil
MainWait ==
    /\ mainPc = "wait" /\ shell = "exited"
    /\ mainPc' = "deferRestore" /\ retErr' = "nil"
    /\ UNCHANGED <<shell, ptyOpen, closeCount, termMode, restoreCount,
                   rawAcquired, relayPc, relayChunk, ptyBuf, shellOut, termOut,
                   parsed, dataVars>>

\* the deferred term.Restore(oldState)
MainDeferRestore ==
    /\ mainPc = "deferRestore"
    /\ mainPc' = "deferClose"
    /\ termMode' = "cooked" /\ restoreCount' = restoreCount + 1
    /\ UNCHANGED <<retErr, shell, ptyOpen, closeCount, rawAcquired, relayPc,
                   relayChunk, ptyBuf, shellOut, termOut, parsed, dataVars>>

\* the deferred ptmx.Close(); runSession has then returned
MainDeferClose ==
    /\ mainPc = "deferClose"
    /\ mainPc' = "returned"
    /\ ptyOpen' = FALSE /\ closeCount' = closeCount + 1
    /\ UNCHANGED <<retErr, shell, termMode, restoreCount, rawAcquired, relayPc,
                   relayChunk, ptyBuf, shellOut, termOut, parsed, dataVars>>

\* the command's RunE returns what runSession returned and the process ends
MainExit ==
    /\ mainPc = "returned"
    /\ mainPc' = "exited"
    /\ UNCHANGED <<retErr, shell, ptyOpen, closeCount, termMode, restoreCount,
                   rawAcquired, relayPc, relayChunk, ptyBuf, shellOut, termOut,
                   parsed, dataVars>>

\* SIGTERM or SIGHUP reaches the process while runSession runs
KillSignal ==
    /\ mainPc \notin {"returned", "exited", "killed"}
    /\ mainPc' = "killed"
    /\ UNCHANGED <<retErr, shell, ptyOpen, closeCount, termMode, restoreCount,
                   rawAcquired, relayPc, relayChunk, ptyBuf, shellOut, termOut,
                   parsed, dataVars>>

\* the shell writes a byte to its terminal
ShellWrite ==
    /\ shell = "running" /\ ptyOpen /\ ProcessAlive
    /\ Len(shellOut) < MaxShellOut
    /\ \E b \in {97, 98} :
         /\ ptyBuf' = Append(ptyBuf, b)
         /\ shellOut' = Append(shellOut, b)
    /\ UNCHANGED <<mainPc, retErr, shell, ptyOpen, closeCount, termMode,
                   restoreCount, rawAcquired, relayPc, relayChunk, termOut,
                   parsed, dataVars>>

\* the shell exits (the user typed exit, or Ctrl+D)
ShellExit ==
    /\ shell = "running"
    /\ shell' = "exited"
    /\ UNCHANGED <<mainPc, retErr, ptyOpen, closeCount, termMode, restoreCount,
                   rawAcquired, relayPc, relayChunk, ptyBuf, shellOut, termOut,
                   parsed, dataVars>>

\* ptmx.Read returns what the PTY holds
RelayRead ==
    /\ ProcessAlive /\ relayPc = "read" /\ ptyOpen /\ ptyBuf # <<>>
    /\ relayChunk' = ptyBuf /\ ptyBuf' = <<>>
    /\ relayPc' = "stdout"
    /\ UNCHANGED <<mainPc, retErr, shell, ptyOpen, closeCount, termMode,
                   restoreCount, rawAcquired, shellOut, termOut, parsed, dataVars>>

\* ptmx.Read fails: the shell is gone and the PTY is drained, or ptmx was
\* closed; io.Copy returns and the goroutine ends
RelayStop ==
    /\ ProcessAlive /\ relayPc = "read"
    /\ ~ptyOpen \/ (shell = "exited" /\ ptyBuf = <<>>)
    /\ relayPc' = "done"
    /\ UNCHANGED <<mainPc, retErr, shell, ptyOpen, closeCount, termMode,
                   restoreCount, rawAcquired, relayChunk, ptyBuf, shellOut,
                   termOut, parsed, dataVars>>

\* a MultiWriter that leaves the RingBuffer out
RelayStdoutSkipsRB ==
    /\ ProcessAlive /\ relayPc = "stdout"
    /\ termOut' = termOut \o relayChunk
    /\ relayPc' = "parser"
    /\ UNCHANGED <<mainPc, retErr, shell, ptyOpen, closeCount, termMode,
                   restoreCount, rawAcquired, relayChunk, ptyBuf, shellOut,
                   parsed, dataVars>>

\* os.Stdout.Write(chunk)
RelayStdout ==
    /\ ProcessAlive /\ relayPc = "stdout"
    /\ termOut' = termOut \o relayChunk
    /\ relayPc' = "rb"
    /\ UNCHANGED <<mainPc, retErr, shell, ptyOpen, closeCount, termMode,
                   restoreCount, rawAcquired, relayChunk, ptyBuf, shellOut,
                   parsed, dataVars>>

\* rawHistoryBuf.Write(chunk)
RelayRB ==
    /\ ProcessAlive /\ relayPc = "rb"
    /\ rb' = RBWrite(rb, relayChunk) /\ written' = written \o relayChunk
    /\ relayPc' = "parser"
    /\ UNCHANGED <<mainPc, retErr, shell, ptyOpen, closeCount, termMode,
                   restoreCount, rawAcquired, relayChunk, ptyBuf, shellOut,
                   termOut, parsed, history, pstate>>

\* parserWriter.Write(chunk): parser.ParseChunk(chunk)
RelayParser ==
    /\ ProcessAlive /\ relayPc = "parser"
    /\ LET p2 == ParseChunk([state |-> pstate, history |-> history], relayChunk)
       IN pstate' = p2.state /\ history' = p2.history
    /\ parsed' = parsed \o relayChunk
    /\ relayPc' = "read" /\ relayChunk' = <<>>
    /\ UNCHANGED <<mainPc, retErr, shell, ptyOpen, closeCount, termMode,
                   restoreCount, rawAcquired, ptyBuf, shellOut, termOut,
                   rb, written>>

(***************************************************************************)
(* Window resize: the SIGWINCH channel of runSession and the goroutine     *)
(* that applies the terminal's size to the PTY.                            *)
(*                                                                         *)
(* ch is a channel of capacity 1: signal.Notify drops a SIGWINCH that      *)
(* finds it full, and the initial `ch <- syscall.SIGWINCH` of the main     *)
(* goroutine blocks while it is full.  pty.InheritSize reads the size of   *)
(* the terminal and then sets it on the PTY, in two system calls.          *)
(***************************************************************************)
VARIABLES
    rz         \* [pc, notify, ch, termSize, ptySize, got, winches, applied, dropped]:
               \* pc, the resize goroutine: "none", "recv", "get", "set";
               \* notify, signal.Notify was called; ch, notifications queued;
               \* got, the size InheritSize has read; winches, how often the
               \* terminal was resized; applied, InheritSize calls completed;
               \* dropped, notifications that found the channel full

\* number of sizes the terminal can take
NumSizes == 2

\* number of times the user resizes the terminal
MaxResizes == 2

\* the PTY as pty.Start made it has no size yet (0)
RzInit ==
    rz = [pc |-> "none", notify |-> FALSE, ch |-> 0, termSize |-> 1, ptySize |-> 0,
          got |-> 0, winches |-> 0, applied |-> 0, dropped |-> 0]

mainVars == <<retErr, shell, ptyOpen, closeCount, termMode, restoreCount,
              rawAcquired, relayPc, relayChunk, ptyBuf, shellOut, termOut,
              parsed, dataVars>>

\* make(chan os.Signal, 1), signal.Notify(ch, SIGWINCH) and the go statement
MainNotify ==
    /\ mainPc = "notify"
    /\ mainPc' = "sendWinch"
    /\ rz' = [rz EXCEPT !.notify = TRUE, !.pc = "recv"]
    /\ UNCHANGED mainVars

\* ch <- syscall.SIGWINCH: the initial resize; blocks while the channel is full
MainSendWinch ==
    /\ mainPc = "sendWinch" /\ rz.ch = 0
    /\ mainPc' = "makeRaw"
    /\ rz' = [rz EXCEPT !.ch = 1]
    /\ UNCHANGED mainVars

\* a runtime that never queues the SIGWINCH of a resize
TermResizeUnnoticed ==
    /\ ProcessAlive /\ rz.winches < MaxResizes
    /\ \E sz \in (1..NumSizes) \ {rz.termSize} :
         rz' = [rz EXCEPT !.termSize = sz, !.winches = @ + 1]
    /\ UNCHANGED <<mainPc, mainVars>>

\* the user resizes the terminal: the kernel sends SIGWINCH, which the Go
\* runtime queues on ch unless ch is full or Notify was not called yet
TermResize ==
    /\ ProcessAlive /\ rz.winches < MaxResizes
    /\ \E sz \in (1..NumSizes) \ {rz.termSize} :
         rz' = [rz EXCEPT !.termSize = sz, !.winches = @ + 1,
                          !.ch = IF rz.notify THEN 1 ELSE @,
                          !.dropped = IF rz.notify /\ rz.ch = 1 THEN @ + 1 ELSE @]
    /\ UNCHANGED <<mainPc, mainVars>>

\* for range ch: receive one notification
ResizeRecv ==
    /\ ProcessAlive /\ rz.pc = "recv" /\ rz.ch = 1
    /\ rz' = [rz EXCEPT !.ch = 0, !.pc = "get"]
    /\ UNCHANGED <<mainPc, mainVars>>

\* pty.InheritSize, first half: read the size of os.Stdin
ResizeGet ==
    /\ ProcessAlive /\ rz.pc = "get"
    /\ rz' = [rz EXCEPT !.got = rz.termSize, !.pc = "set"]
    /\ UNCHANGED <<mainPc, mainVars>>

\* pty.InheritSize, second half: set the size on ptmx; on a closed ptmx the
\* call fails and the error is logged
ResizeSet ==
    /\ ProcessAlive /\ rz.pc = "set"
    /\ rz' = [rz EXCEPT !.ptySize = IF ptyOpen THEN rz.got ELSE @,
                        !.applied = IF ptyOpen THEN @ + 1 ELSE @,
                        !.pc = "recv"]
    /\ UNCHANGED <<mainPc, mainVars>>

(***************************************************************************)
(* The two shared structures and their locks.                              *)
(*                                                                         *)
(* The relay goroutine writes the RingBuffer (RingBuffer.Write) and, from  *)
(* ParseChunk, appends to the history (SessionHistory.AddEvent); the input *)
(* goroutine reads both when it builds a context.  Each method is taken    *)
(* apart into Lock, body and Unlock.  GetLastEvents returns a slice of     *)
(* h.Events, not a copy: the loop over lastEvents reads the cells of the   *)
(* event array after RUnlock.  append writes the cell behind the last one  *)
(* (or a fresh array) and the slice header, never a cell already in use.   *)
(* currentInput, currentOutput and the parser state belong to the relay    *)
(* goroutine alone; the model sets them at the step that appends the       *)
(* event, or at the parse step when the chunk ends no command.             *)
(***************************************************************************)
VARIABLES
    lk         \* [relay, input, rbW, rbR, histW, histR, pend, snap, asked, ctx]:
               \* relay, input: where each goroutine is; rbW, histW: the
               \* goroutine that holds the write lock ("" if none); rbR,
               \* histR: those that hold the read lock; pend: the parser
               \* value ParseChunk is about to leave; snap: first and last
               \* cell of the slice GetLastEvents returned; asked: triggers
               \* so far; ctx: the context last built

\* number of chunks the relay handles beside the questions
MaxLockChunks == 3

\* number of questions asked
MaxLockAsks == 2

LkInit ==
    lk = [relay |-> "read", input |-> "idle", rbW |-> "", rbR |-> {},
          histW |-> "", histR |-> {},
          pend |-> NewSessionParser(NewSessionHistory),
          snap |-> <<1, 0>>, asked |-> 0,
          ctx |-> [structured |-> FALSE, events |-> <<>>, raw |-> <<>>]]

lockData == <<rb, written, history, pstate, rk>>

\* io.Copy has read the next chunk and calls rawHistoryBuf.Write
RelayNextChunk ==
    /\ lk.relay = "read" /\ rk < MaxLockChunks
    /\ lk' = [lk EXCEPT !.relay = "rbLock"]
    /\ UNCHANGED lockData

\* a Lock that waits for the writer only, not for the readers
RbWriteLockNoWait ==
    /\ lk.relay = "rbLock" /\ lk.rbW = ""
    /\ lk' = [lk EXCEPT !.rbW = "relay", !.relay = "rbWrite"]
    /\ UNCHANGED lockData

\* RingBuffer.Write: r.mu.Lock()
RbWriteLock ==
    /\ lk.relay = "rbLock" /\ lk.rbW = "" /\ lk.rbR = {}
    /\ lk' = [lk EXCEPT !.rbW = "relay", !.relay = "rbWrite"]
    /\ UNCHANGED lockData

\* RingBuffer.Write: the copies into r.data and the updates of pos and full
RbWriteBody ==
    /\ lk.relay = "rbWrite"
    /\ LET bytes == Flatten(ShellChunk(rk + 1))
       IN rb' = RBWrite(rb, bytes) /\ written' = written \o bytes
    /\ lk' = [lk EXCEPT !.relay = "rbUnlock"]
    /\ UNCHANGED <<history, pstate, rk>>

\* RingBuffer.Write: the deferred r.mu.Unlock()
RbWriteUnlock ==
    /\ lk.relay = "rbUnlock"
    /\ lk' = [lk EXCEPT !.rbW = "", !.relay = "parse"]
    /\ UNCHANGED lockData

\* parserWriter.Write: ParseChunk up to its call of AddEvent, or to its end
\* when the chunk ends no command
RelayParse ==
    /\ lk.relay = "parse"
    /\ LET p2 == ParseChunk([state |-> pstate, history |-> history],
                            Flatten(ShellChunk(rk + 1)))
       IN IF p2.history.Events # history.Events
          THEN /\ lk' = [lk EXCEPT !.relay = "hLock", !.pend = p2]
               /\ UNCHANGED lockData
          ELSE /\ lk' = [lk EXCEPT !.relay = "read"]
               /\ pstate' = p2.state /\ history' = p2.history /\ rk' = rk + 1
               /\ UNCHANGED <<rb, written>>

\* AddEvent: h.mu.Lock()
AddEventLock ==
    /\ lk.relay = "hLock" /\ lk.histW = "" /\ lk.histR = {}
    /\ lk' = [lk EXCEPT !.histW = "relay", !.relay = "hAppend"]
    /\ UNCHANGED lockData

\* AddEvent: h.Events = append(h.Events, ...)
AddEventAppend ==
    /\ lk.relay = "hAppend"
    /\ history' = lk.pend.history /\ pstate' = lk.pend.state
    /\ lk' = [lk EXCEPT !.relay = "hUnlock"]
    /\ UNCHANGED <<rb, written, rk>>

\* AddEvent: the deferred h.mu.Unlock(); ParseChunk then runs to its end
AddEventUnlock ==
    /\ lk.relay = "hUnlock"
    /\ lk' = [lk EXCEPT !.histW = "", !.relay = "read"]
    /\ rk' = rk + 1
    /\ UNCHANGED <<rb, written, history, pstate>>

\* the input goroutine has read the terminator of a question
AskStart ==
    /\ lk.input = "idle" /\ lk.asked < MaxLockAsks
    /\ lk' = [lk EXCEPT !.input = "hRLock", !.asked = @ + 1]
    /\ UNCHANGED lockData

\* GetLastEvents: h.mu.RLock()
GetLastEventsRLock ==
    /\ lk.input = "hRLock" /\ lk.histW = ""
    /\ lk' = [lk EXCEPT !.histR = @ \cup {"input"}, !.input = "hRead"]
    /\ UNCHANGED lockData

\* GetLastEvents: len(h.Events) and the slice expression
GetLastEventsRead ==
    /\ lk.input = "hRead"
    /\ LET n == Len(history.Events)
       IN lk' = [lk EXCEPT !.snap = <<Max(1, n - ContextEvents + 1), n>>,
                           !.input = "hRUnlock"]
    /\ UNCHANGED lockData

\* GetLastEvents: the deferred h.mu.RUnlock(); then len(lastEvents) > 0
GetLastEventsRUnlock ==
    /\ lk.input = "hRUnlock"
    /\ lk' = [lk EXCEPT !.histR = @ \ {"input"},
                        !.input = IF lk.snap[2] >= lk.snap[1] THEN "iter"
                                  ELSE "rbRLock"]
    /\ UNCHANGED lockData

\* for _, e := range lastEvents: the cells of the slice are read
ContextIterate ==
    /\ lk.input = "iter"
    /\ lk' = [lk EXCEPT !.ctx = [structured |-> TRUE,
                                 events |-> SubSeq(history.Events, lk.snap[1], lk.snap[2]),
                                 raw |-> <<>>],
                        !.input = "llm"]
    /\ UNCHANGED lockData

\* an input goroutine that takes no read lock on the RingBuffer
RbStringNoRLock ==
    /\ lk.input = "rbRLock"
    /\ lk' = [lk EXCEPT !.input = "rbRead"]
    /\ UNCHANGED lockData

\* RingBuffer.String: r.mu.RLock()
RbStringRLock ==
    /\ lk.input = "rbRLock" /\ lk.rbW = ""
    /\ lk' = [lk EXCEPT !.rbR = @ \cup {"input"}, !.input = "rbRead"]
    /\ UNCHANGED lockData

\* RingBuffer.String: the copies out of r.data; then cleanTerminalOutput
RbStringCopy ==
    /\ lk.input = "rbRead"
    /\ lk' = [lk EXCEPT !.ctx = [structured |-> FALSE, events |-> <<>>,
                                 raw |-> cleanTerminalOutput(RBString(rb))],
                        !.input = "rbRUnlock"]
    /\ UNCHANGED lockData

\* RingBuffer.String: the deferred r.mu.RUnlock()
RbStringRUnlock ==
    /\ lk.input = "rbRUnlock"
    /\ lk' = [lk EXCEPT !.rbR = @ \ {"input"}, !.input = "llm"]
    /\ UNCHANGED lockData

\* runInlineLLM returns and the loop reads on
AskDone ==
    /\ lk.input = "llm"
    /\ lk' = [lk EXCEPT !.input = "idle"]
    /\ UNCHANGED lockData

(***************************************************************************)
(* cleanTerminalOutput applied to one string.                              *)
(***************************************************************************)
VARIABLES
    cl         \* [input, output, done]: the string given and the string returned

\* length of the strings cleaned
MaxCleanLen == 4

\* the bytes they are made of: ESC [ A 3 m and a space
CleanBytes == {ESC, 91, 65, 51, 109, 32}

\* "\x1b[31mError:\x1b[0m File not found"
AnsiSample ==
    <<27, 91, 51, 49, 109>> \o <<69, 114, 114, 111, 114, 58>> \o <<27, 91, 48, 109>>
    \o <<32, 70, 105, 108, 101, 32, 110, 111, 116, 32, 102, 111, 117, 110, 100>>

ClIdle == cl = [input |-> <<>>, output |-> <<>>, done |-> FALSE]

CleanInit ==
    \E s \in SeqsUpTo(CleanBytes, MaxCleanLen) \cup {AnsiSample} :
        cl = [input |-> s, output |-> <<>>, done |-> FALSE]

\* out := cleanTerminalOutput(input)
CleanStep ==
    /\ ~cl.done
    /\ cl' = [cl EXCEPT !.output = cleanTerminalOutput(cl.input), !.done = TRUE]

(***************************************************************************)
(* One stream of shell output handed to ParseChunk in consecutive chunks.  *)
(* The stream is a sequence of atoms, each one byte of plain text or one   *)
(* complete marker; a chunk is any run of atoms, so no chunk boundary cuts *)
(* through a marker.                                                       *)
(***************************************************************************)
VARIABLES
    ck         \* [stream, pos, chunks]: the atoms of the stream, how many of
               \* them were fed, and in how many ParseChunk calls

\* number of atoms of the longest stream
MaxStream == 4

\* "a", " ", and the markers A, B, C, D;1
Atoms == {TxA, TxSpace, PcA, PcB, PcC, PcD1}

CkIdle == ck = [stream |-> <<>>, pos |-> 0, chunks |-> 0]

ChunkInit ==
    /\ \E st \in SeqsUpTo(Atoms, MaxStream) : ck = [stream |-> st, pos |-> 0, chunks |-> 0]
    /\ history = NewSessionHistory
    /\ pstate = NewSessionParser(NewSessionHistory).state

\* parser.ParseChunk on the next atoms of the stream, up to atom `to`
ChunkFeed ==
    \E to \in (ck.pos + 1)..Len(ck.stream) :
        LET p2 == ParseChunk([state |-> pstate, history |-> history],
                             Flatten(SubSeq(ck.stream, ck.pos + 1, to)))
        IN /\ pstate' = p2.state
           /\ history' = p2.history
           /\ ck' = [ck EXCEPT !.pos = to, !.chunks = @ + 1]

(***************************************************************************)
(* The keyboard: what the user types waits in the terminal's input queue   *)
(* until os.Stdin.Read takes it, one byte per call.                        *)
(***************************************************************************)
VARIABLES
    ty         \* [queue, typed]: the bytes typed and not yet read, and the
               \* history of all bytes typed

\* number of bytes the user types
MaxTyped == 5

\* the bytes typed: ?, \r, a
TypedBytes == {63, 13, 97}

TyIdle == ty = [queue |-> <<>>, typed |-> <<>>]

\* the user presses a key, whatever the input goroutine is doing
UserTypes ==
    /\ Len(ty.typed) < MaxTyped
    /\ \E b \in TypedBytes :
         ty' = [queue |-> Append(ty.queue, b), typed |-> Append(ty.typed, b)]

\* os.Stdin.Read returns the oldest byte of the queue: b
StdinRead(b) ==
    /\ ty.queue # <<>> /\ Head(ty.queue) = b
    /\ ty' = [ty EXCEPT !.queue = Tail(@)]

\*-- SPECIFICATIONS --------------------------------------------------------

(***************************************************************************)
(* Specifications.  Each one runs one part of the program and holds the    *)
(* variables of the other parts at their initial values.                   *)
(***************************************************************************)
\* the variables added by the later parts of the model, and their idle values
\* the history variables of single specifications
moreVars == <<rbN, ck, ty>>

MoreIdle == rbN = 0 /\ CkIdle /\ TyIdle

extraVars == <<cl, historyMgr, rz, lk, moreVars>>

ExtraIdle == ClIdle /\ historyMgr = "set" /\ RzInit /\ LkInit /\ MoreIdle

vars == <<rb, written, history, q, pstate, pg, lc, inputVars, rk, sessVars, extraVars>>

RBIdle == rb = NewRingBuffer(1) /\ written = <<>>

HistIdle == history = NewSessionHistory

QIdle == q = [n |-> 0, at |-> 0, res |-> <<>>]

ParserIdle == pstate = StateNone /\ PgInit

RelayIdle == rk = 0

RBFrame == UNCHANGED <<history, q, pstate, pg, lc, inputVars, rk, sessVars, cl, historyMgr, rz, lk, ck, ty>>

HistFrame == UNCHANGED <<rb, written, pstate, pg, lc, inputVars, rk, sessVars, extraVars>>

ParserFrame == UNCHANGED <<rb, written, q, lc, inputVars, rk, sessVars, extraVars>>

LifeFrame == UNCHANGED <<rb, written, q, pg, inputVars, rk, sessVars, extraVars>>

InputFrame == UNCHANGED <<rb, written, history, q, pstate, pg, lc, rk, sessVars, extraVars>>

RelayFrame == UNCHANGED <<q, pg, lc, sessVars, extraVars>>

SessFrame == UNCHANGED <<q, pg, lc, inputVars, rk, extraVars>>

ResizeFrame == UNCHANGED <<q, pg, lc, inputVars, rk, cl, historyMgr, lk, moreVars>>

InitRB ==
    RBInit /\ HistIdle /\ QIdle /\ ParserIdle /\ LcInit /\ InputInit /\ RelayIdle /\ SessInit
    /\ ClIdle /\ historyMgr = "set" /\ RzInit /\ LkInit /\ CkIdle /\ TyIdle

NextRB == RBWriteStep /\ RBFrame

SpecRB == InitRB /\ [][NextRB]_vars

InitHistory ==
    HistInit /\ RBIdle /\ ParserIdle /\ LcInit /\ InputInit /\ RelayIdle /\ SessInit /\ ExtraIdle

NextHistory ==
    \/ HistAdd /\ HistFrame
    \/ HistQuery /\ HistFrame

SpecHistory == InitHistory /\ [][NextHistory]_vars

InitParser == ParserInit /\ RBIdle /\ QIdle /\ LcInit /\ InputInit /\ RelayIdle /\ SessInit /\ ExtraIdle

NextParser == ParseStep /\ ParserFrame

SpecParser == InitParser /\ [][NextParser]_vars

InitLifecycle == LifeInit /\ RBIdle /\ QIdle /\ PgInit /\ InputInit /\ RelayIdle /\ SessInit /\ ExtraIdle

NextLifecycle ==
    \/ FeedA /\ LifeFrame
    \/ FeedPrompt /\ LifeFrame
    \/ FeedB /\ LifeFrame
    \/ FeedCmd /\ LifeFrame
    \/ FeedC /\ LifeFrame
    \/ FeedOut /\ LifeFrame
    \/ FeedD /\ LifeFrame

SpecLifecycle == InitLifecycle /\ [][NextLifecycle]_vars

\* the input loop alone, on any typed bytes, before the shell printed anything
InitInput ==
    InputInit /\ SessionRBInit /\ HistIdle /\ QIdle /\ ParserIdle /\ LcInit /\ RelayIdle /\ SessInit
    /\ ExtraIdle

NextInput ==
    \/ \E b \in InBytes : InTrigger(b) /\ InputFrame
    \/ InLLMReturn /\ InputFrame
    \/ \E b \in InBytes : InEnter(b) /\ InputFrame
    \/ \E b \in InBytes : InBackspace(b) /\ InputFrame
    \/ \E b \in InBytes : InCtrlC(b) /\ InputFrame
    \/ \E b \in InBytes : InCtrlD(b) /\ InputFrame
    \/ \E b \in InBytes : InChar(b) /\ InputFrame

SpecInput == InitInput /\ [][NextInput]_vars

\* one stream fed to a fresh parser in chunks
ChunkFrame ==
    UNCHANGED <<rb, written, q, pg, lc, inputVars, rk, sessVars, cl, historyMgr, rz, lk, rbN, ty>>

InitChunks ==
    ChunkInit /\ RBIdle /\ QIdle /\ PgInit /\ LcInit /\ InputInit /\ RelayIdle /\ SessInit
    /\ ClIdle /\ historyMgr = "set" /\ RzInit /\ LkInit /\ rbN = 0 /\ TyIdle

NextChunks == ChunkFeed /\ ChunkFrame

SpecChunks == InitChunks /\ [][NextChunks]_vars

\* the input loop behind the keyboard: the user types at any time, also while
\* runInlineLLM runs; the call ends (llmChat runs under context.WithTimeout)
\* and a goroutine blocked in Read is woken when a byte is there
ModalFrame ==
    UNCHANGED <<rb, written, history, q, pstate, pg, lc, rk, sessVars, cl, historyMgr,
                rz, lk, rbN, ck>>

InitModal ==
    InputInit /\ SessionRBInit /\ HistIdle /\ QIdle /\ ParserIdle /\ LcInit /\ RelayIdle /\ SessInit
    /\ ExtraIdle

InputTask ==
    \/ \E b \in TypedBytes : StdinRead(b) /\ InTrigger(b) /\ ModalFrame
    \/ \E b \in TypedBytes : StdinRead(b) /\ InEnter(b) /\ ModalFrame
    \/ \E b \in TypedBytes : StdinRead(b) /\ InChar(b) /\ ModalFrame
    \/ InLLMReturn /\ UNCHANGED ty /\ ModalFrame

NextModal ==
    \/ UserTypes /\ UNCHANGED inputVars /\ ModalFrame
    \/ InputTask

SpecModal == InitModal /\ [][NextModal]_vars /\ WF_vars(InputTask)

\* the input loop alone, on the bytes that edit a line
NextLine ==
    \/ \E b \in EditBytes : InEnter(b) /\ InputFrame
    \/ \E b \in EditBytes : InBackspace(b) /\ InputFrame
    \/ \E b \in EditBytes : InCtrlC(b) /\ InputFrame
    \/ \E b \in EditBytes : InCtrlD(b) /\ InputFrame
    \/ \E b \in EditBytes : InChar(b) /\ InputFrame

SpecLine == InitInput /\ [][NextLine]_vars

\* the input loop, on questions only, beside the relay of the shell's output,
\* with and without a history manager
InitContext ==
    InputInit /\ SessionRBInit /\ HistIdle /\ QIdle /\ ParserIdle /\ LcInit /\ RelayIdle /\ SessInit
    /\ ClIdle /\ HistoryMgrInit /\ RzInit /\ LkInit /\ MoreIdle

NextContext ==
    \/ \E b \in {13} : InTrigger(b) /\ InputFrame
    \/ InLLMReturn /\ InputFrame
    \/ \E b \in {63} : InChar(b) /\ InputFrame
    \/ RelayChunk /\ UNCHANGED inputVars /\ RelayFrame

SpecContext == InitContext /\ [][NextContext]_vars

\* cleanTerminalOutput on every short string of escape and text bytes
CleanFrame ==
    UNCHANGED <<rb, written, history, q, pstate, pg, lc, inputVars, rk, sessVars,
                historyMgr, rz, lk, moreVars>>

InitClean ==
    CleanInit /\ RBIdle /\ HistIdle /\ QIdle /\ ParserIdle /\ LcInit /\ InputInit
    /\ RelayIdle /\ SessInit /\ historyMgr = "set" /\ RzInit /\ LkInit /\ MoreIdle

NextClean == CleanStep /\ CleanFrame

SpecClean == InitClean /\ [][NextClean]_vars

\* the relay and the input goroutine on the RingBuffer and the history
LockFrame == UNCHANGED <<q, pg, lc, inputVars, sessVars, cl, historyMgr, rz, moreVars>>

InitLocks ==
    LkInit /\ SessionRBInit /\ HistIdle /\ QIdle /\ ParserIdle /\ LcInit /\ InputInit
    /\ RelayIdle /\ SessInit /\ ClIdle /\ historyMgr = "set" /\ RzInit /\ MoreIdle

NextLocks ==
    \/ RelayNextChunk /\ LockFrame
    \/ RbWriteLock /\ LockFrame
    \/ RbWriteBody /\ LockFrame
    \/ RbWriteUnlock /\ LockFrame
    \/ RelayParse /\ LockFrame
    \/ AddEventLock /\ LockFrame
    \/ AddEventAppend /\ LockFrame
    \/ AddEventUnlock /\ LockFrame
    \/ AskStart /\ LockFrame
    \/ GetLastEventsRLock /\ LockFrame
    \/ GetLastEventsRead /\ LockFrame
    \/ GetLastEventsRUnlock /\ LockFrame
    \/ ContextIterate /\ LockFrame
    \/ RbStringRLock /\ LockFrame
    \/ RbStringCopy /\ LockFrame
    \/ RbStringRUnlock /\ LockFrame
    \/ AskDone /\ LockFrame

SpecLocks == InitLocks /\ [][NextLocks]_vars

\* runSession from its first line to the end of the process, beside a user
\* who resizes the terminal at most once
InitSession ==
    SessInit /\ SessionRBInit /\ HistIdle /\ QIdle /\ ParserIdle /\ LcInit
    /\ InputInit /\ RelayIdle /\ ExtraIdle

NextSession ==
    \/ MainDetect /\ SessFrame
    \/ MainDetectFail /\ SessFrame
    \/ MainStartPty /\ SessFrame
    \/ MainStartPtyFail /\ SessFrame
    \/ MainMakeRaw /\ SessFrame
    \/ MainMakeRawFail /\ SessFrame
    \/ MainSpawn /\ SessFrame
    \/ MainWait /\ SessFrame
    \/ MainDeferRestore /\ SessFrame
    \/ MainDeferClose /\ SessFrame
    \/ MainExit /\ SessFrame
    \/ KillSignal /\ SessFrame
    \/ MainNotify /\ ResizeFrame
    \/ MainSendWinch /\ ResizeFrame
    \/ rz.winches = 0 /\ TermResize /\ ResizeFrame
    \/ ResizeRecv /\ ResizeFrame
    \/ ResizeGet /\ ResizeFrame
    \/ ResizeSet /\ ResizeFrame
    \/ ShellWrite /\ SessFrame
    \/ ShellExit /\ SessFrame
    \/ RelayRead /\ SessFrame
    \/ RelayStop /\ SessFrame
    \/ RelayStdout /\ SessFrame
    \/ RelayRB /\ SessFrame
    \/ RelayParser /\ SessFrame

SpecSession == InitSession /\ [][NextSession]_vars

\* number of bytes typed while the shutdown is watched
MaxShutdownReads == 3

\* the input goroutine runs: started with the relay, and the process lives
InputRunning ==
    relayPc # "none" /\ ProcessAlive /\ Len(stdinRead) < MaxShutdownReads

\* the steps of the main goroutine
MainTask ==
    \/ MainDetect /\ SessFrame
    \/ MainDetectFail /\ SessFrame
    \/ MainStartPty /\ SessFrame
    \/ MainStartPtyFail /\ SessFrame
    \/ MainNotify /\ ResizeFrame
    \/ MainSendWinch /\ ResizeFrame
    \/ MainMakeRaw /\ SessFrame
    \/ MainMakeRawFail /\ SessFrame
    \/ MainSpawn /\ SessFrame
    \/ MainWait /\ SessFrame
    \/ MainDeferRestore /\ SessFrame
    \/ MainDeferClose /\ SessFrame

\* the resize goroutine takes what is queued for it
ResizeTask ==
    \/ ResizeRecv /\ ResizeFrame
    \/ ResizeGet /\ ResizeFrame
    \/ ResizeSet /\ ResizeFrame

\* the whole session with its three goroutines and a user who asks one
\* question, when no terminating signal arrives: the Go scheduler runs
\* every goroutine that can run, so the main and the resize goroutine are
\* weakly fair; the shell, the user and the LLM owe nothing
NextShutdown ==
    \/ MainTask
    \/ ResizeTask
    \/ MainExit /\ SessFrame
    \/ ShellWrite /\ SessFrame
    \/ ShellExit /\ SessFrame
    \/ RelayRead /\ SessFrame
    \/ RelayStop /\ SessFrame
    \/ RelayStdout /\ SessFrame
    \/ RelayRB /\ SessFrame
    \/ RelayParser /\ SessFrame
    \/ InputRunning /\ InChar(63) /\ InputFrame
    \/ InputRunning /\ InTrigger(13) /\ InputFrame
    \/ ProcessAlive /\ InLLMReturn /\ InputFrame

SpecShutdown ==
    InitSession /\ [][NextShutdown]_vars /\ WF_vars(MainTask) /\ WF_vars(ResizeTask)

\* the main and the resize goroutine beside a user who resizes the terminal
\* and a shell that may exit, when no terminating signal arrives; both
\* goroutines are weakly fair, the user and the shell owe nothing
NextResize ==
    \/ MainTask
    \/ ResizeTask
    \/ TermResize /\ ResizeFrame
    \/ ShellExit /\ SessFrame
    \/ MainExit /\ SessFrame

SpecResize ==
    InitSession /\ [][NextResize]_vars /\ WF_vars(MainTask) /\ WF_vars(ResizeTask)

(***************************************************************************)
(* Claims about the parser and the history.                                *)
(***************************************************************************)
\* the one event a finished lifecycle is said to leave
LifecycleEvent ==
    [Command |-> TrimSpace(lc.cmd),
     Output |-> cleanTerminalOutput(lc.out),
     ExitCode |-> lc.expect]

\* C2 as stated: after A, prompt text, B, command text, C, output text, D;<n>
\* the history holds exactly one CommandEvent, with the trimmed command, the
\* cleaned output and exit code n (0 when the code is absent or unparsable).
C2_Original == lc.step = 7 => history.Events = <<LifecycleEvent>>

\* C2 as amended: the same, provided the trimmed command text or the cleaned
\* output text is non-empty; when both are empty the D marker appends nothing
\* and the history stays empty.
C2_LifecycleEvent ==
    lc.step = 7 =>
        IF TrimSpace(lc.cmd) # <<>> \/ cleanTerminalOutput(lc.out) # <<>>
        THEN history.Events = <<LifecycleEvent>>
        ELSE history.Events = <<>>

\* the lifecycle of the test, "echo hello" / "hello\r\n", ended by D;130
C2_Witness ==
    /\ lc.step = 7
    /\ history.Events =
         <<[Command |-> <<101, 99, 104, 111, 32, 104, 101, 108, 108, 111>>,
            Output |-> <<104, 101, 108, 108, 111, 13, 10>>,
            ExitCode |-> 130]>>

\* a lifecycle with an unparsable exit code and an output of escapes only
C2_WitnessUnparsable ==
    /\ lc.step = 7 /\ lc.out = <<27, 91, 109>> /\ lc.cmd = <<32, 97, 32>>
    /\ history.Events = <<[Command |-> <<97>>, Output |-> <<>>, ExitCode |-> 0]>>

\* C3 as stated: no more events than D markers that ended a complete lifecycle
\* (B, then C, then D): a D without the preceding B and C phases, or a marker
\* sequence without D, appends nothing.
C3_Original == Len(history.Events) <= pg.nComplete

\* C3 as amended: the event list only grows by appending, only while a chunk
\* that carries a D marker is processed, and by at most one event per D marker
\* of that chunk; a D appends its event whether or not B and C preceded it.
C3_OnlyAtD ==
    [][/\ Len(history'.Events) >= Len(history.Events)
       /\ SubSeq(history'.Events, 1, Len(history.Events)) = history.Events
       /\ Len(history'.Events) - Len(history.Events) <= pg'.nD - pg.nD
       /\ pg'.nD - pg.nD = CountD(pg'.chunk)]_parserVars

\* an event appended by a D that no C preceded, after a chunk without any D
C3_Witness ==
    /\ Len(history.Events) = 1
    /\ pg.nD = 1 /\ pg.nComplete = 0 /\ pg.feeds >= 2
    /\ CountD(pg.chunk) = 1

(***************************************************************************)
(* Claims about the input interception loop.                               *)
(***************************************************************************)
\* the bytes of a tagged sequence
BytesOf(ts) == [i \in 1..Len(ts) |-> ts[i][1]]

IsFwd(e) == e[2] = "fwd"

IsIn(e) == e[2] = "in"

\* number of entries of ts with tag `tag` whose byte is a line terminator
TerminatorCount(ts, tag) ==
    Cardinality({i \in 1..Len(ts) : ts[i][2] = tag /\ IsTerminator(ts[i][1])})

\* C5 as stated: a line is intercepted at its terminator if and only if the
\* line with its surrounding whitespace trimmed begins with "??", whatever
\* whitespace (none, one space, several spaces, a tab) comes before the "??".
C5_TrimmedPrefix ==
    term.seen => (term.trig <=> HasPrefix(TrimSpace(term.line), <<63, 63>>))

\* C6: on a trigger the clear-input-line byte (0x15) is written to the PTY
\* before the LLM is invoked, the terminator read is not forwarded, and the only
\* terminator written for that line is the \r that follows the clear byte once
\* the LLM call is over.
C6_ClearBeforeLLM ==
    /\ inPc = "llm" =>
         /\ ptyIn # <<>> /\ ptyIn[Len(ptyIn)] = <<CtrlU, "inj">>
         /\ call.ptyAt = Len(ptyIn)
         /\ stdinRead[Len(stdinRead)][2] = "trig"
    /\ call.n > 0 => ptyIn[call.ptyAt] = <<CtrlU, "inj">>
    /\ \A i \in 1..Len(ptyIn) :
         /\ ptyIn[i] = <<CtrlU, "inj">> =>
              \/ i = Len(ptyIn) /\ inPc = "llm"
              \/ i < Len(ptyIn) /\ ptyIn[i + 1] = <<13, "inj">>
         /\ (ptyIn[i][2] = "inj" /\ IsTerminator(ptyIn[i][1])) =>
              i > 1 /\ ptyIn[i - 1] = <<CtrlU, "inj">>
    /\ TerminatorCount(ptyIn, "fwd") = TerminatorCount(stdinRead, "in")
    /\ TerminatorCount(stdinRead, "trig") = call.n

\* an interception that is over: the question was forwarded as typed, then
\* came the clear byte and, after the LLM call, the redraw \r
C6_Witness ==
    /\ call.n = 1 /\ inPc = "read"
    /\ Len(ptyIn) >= 4
    /\ ptyIn[1] = <<63, "fwd">>
    /\ ptyIn[Len(ptyIn) - 1] = <<CtrlU, "inj">>
    /\ ptyIn[Len(ptyIn)] = <<13, "inj">>

\* C7: every byte read, other than the terminator of an intercepted line, is
\* written to the PTY exactly once, unmodified and in the order read, whatever
\* the line buffer holds and however full it is; a terminator on any other line
\* is itself forwarded and empties the line buffer.
C7_Passthrough ==
    /\ BytesOf(SelectSeq(ptyIn, IsFwd)) = BytesOf(SelectSeq(stdinRead, IsIn))
    /\ (stdinRead # <<>> /\ stdinRead[Len(stdinRead)][2] = "in"
          /\ IsTerminator(stdinRead[Len(stdinRead)][1])) =>
         /\ inputBuf = <<>>
         /\ ptyIn[Len(ptyIn)] = <<stdinRead[Len(stdinRead)][1], "fwd">>

\* bytes typed into a line buffer that is already full
C7_Witness ==
    /\ Len(inputBuf) = InputBufCap
    /\ Len(stdinRead) > InputBufCap + 1
    /\ \A i \in 1..Len(stdinRead) : stdinRead[i][1] \in {97, 63}
    /\ Len(ptyIn) = Len(stdinRead)

\* C8: with at least one CommandEvent in the history at the moment of the
\* trigger the context is built only from the most recent events, at most 5,
\* oldest first, each with its command, exit code and output; the cleaned
\* RingBuffer contents are the context if and only if the history holds none.
C8_ContextSelection ==
    call.n > 0 =>
        LET N == call.evAt
            k == Min(N, ContextEvents)
            ev == SubSeq(history.Events, 1, N)
        IN /\ N >= 1 => /\ call.context.structured
                        /\ call.context.events = SubSeq(ev, N - k + 1, N)
                        /\ call.context.raw = <<>>
           /\ ~call.context.structured <=> N = 0
           /\ N = 0 => /\ call.context.events = <<>>
                       /\ call.context.raw = cleanTerminalOutput(call.rawAt)

\* a question asked with six commands in the history: the context holds the
\* last five, the most recent (exit status 7) last
C8_Witness ==
    /\ call.n > 0 /\ call.evAt = 6
    /\ Len(call.context.events) = ContextEvents
    /\ call.context.events[1].ExitCode = 3
    /\ call.context.events[ContextEvents].ExitCode = 7

\* a question asked before any command finished, with output in the RingBuffer
C8_WitnessRaw ==
    /\ call.n > 0 /\ call.evAt = 0
    /\ ~call.context.structured /\ call.context.raw # <<>>

(***************************************************************************)
(* Claims about runSession.                                                *)
(***************************************************************************)
\* runSession is over: it returned, or the process was ended by a signal
SessionEnded == mainPc \in {"returned", "exited", "killed"}

\* C4: once the terminal is in raw mode, every way the session ends (the shell
\* exits, an error path returns, a terminating signal arrives) restores the
\* terminal's prior mode, with the restore routine invoked exactly once.
C4_RestoredOnce ==
    (rawAcquired /\ SessionEnded) => (restoreCount = 1 /\ termMode = "cooked")

\* C10: when runSession has returned after the shell's exit, every byte the
\* shell wrote to the PTY has been delivered to the real terminal, to the
\* RingBuffer and to the parser.
C10_NoOutputLost ==
    (mainPc \in {"returned", "exited"} /\ retErr = "nil") =>
        /\ termOut = shellOut
        /\ written = shellOut
        /\ parsed = shellOut

\* pty.Start succeeded in this run (the shell was started behind ptmx)
PtyStarted == shell # "none"

\* C13: the PTY handle a successful pty.Start returned is closed exactly once
\* on every path by which runSession returns after that point (raw-mode
\* failure, normal return after the shell's exit), and is never closed when
\* pty.Start itself failed or was never reached.
C13_ClosedOnce ==
    /\ closeCount <= 1
    /\ ~PtyStarted => closeCount = 0
    /\ mainPc \in {"returned", "exited"} =>
         /\ closeCount = (IF PtyStarted THEN 1 ELSE 0)
         /\ ~ptyOpen

\* runSession returned the raw-mode error after closing the PTY it had opened
C13_Witness ==
    /\ mainPc = "returned" /\ retErr = "error"
    /\ PtyStarted /\ ~rawAcquired /\ closeCount = 1

\* runSession returned after the shell's exit, the PTY closed once
C13_WitnessNormal ==
    /\ mainPc = "returned" /\ retErr = "nil" /\ closeCount = 1 /\ restoreCount = 1

(***************************************************************************)
(* Claims about one ParseChunk call: pg.pre is the parser before the call, *)
(* pg.chunk the chunk, and pstate and history the parser after it.         *)
(***************************************************************************)
ParserNow == [state |-> pstate, history |-> history]

\* bytes taken as literal content by a parser p
RouteLiteral(p, bytes) ==
    [state |-> p.state,
     history |->
        [Events |-> p.history.Events,
         currentInput |->
            IF p.state = StateInput THEN p.history.currentInput \o bytes
            ELSE p.history.currentInput,
         currentOutput |->
            IF p.state = StateOutput THEN p.history.currentOutput \o bytes
            ELSE p.history.currentOutput]]

\* a chunk taken piece by piece: a complete marker drives its transition, a
\* run of text or an unterminated introducer is literal content
RECURSIVE PiecewiseParse(_, _)
PiecewiseParse(p, pieces) ==
    IF pieces = <<>> THEN p
    ELSE LET pc == Head(pieces)
             p2 == IF pc.kind = "marker" THEN handleTransition(p, pc.code)
                   ELSE RouteLiteral(p, pc.bytes)
         IN PiecewiseParse(p2, Tail(pieces))

HasBroken(c) == \E i \in 1..Len(c) : c[i].kind = "broken"

NoCompleteMarker(c) == \A i \in 1..Len(c) : c[i].kind # "marker"

\* C14: an introducer with no terminator after it in its chunk drives no
\* transition and leaves nothing behind for the next chunk: it goes, with the
\* bytes after it, as literal content to the buffer of the active state; so
\* neither half of a marker split over two chunks changes the state, and
\* every chunk is parsed to the end.
C14_BrokenIsLiteral ==
    pg.feeds > 0 =>
        /\ HasBroken(pg.chunk) => ParserNow = PiecewiseParse(pg.pre, pg.chunk)
        /\ NoCompleteMarker(pg.chunk) =>
              /\ ParserNow = RouteLiteral(pg.pre, Flatten(pg.chunk))
              /\ pstate = pg.pre.state
        /\ pstate \in ParserStates

\* a C marker split before its terminator, fed while output is collected:
\* both halves are now in currentOutput and the state is unchanged
C14_Witness ==
    /\ pg.chunk = <<TxBel>>
    /\ pg.pre.state = StateOutput /\ pstate = StateOutput
    /\ pg.pre.history.currentOutput = OSC_START \o <<67>>
    /\ history.currentOutput = Marker(<<67>>)

\* an unterminated introducer followed, in the same chunk, by a complete marker
C14_WitnessMixed ==
    /\ pg.chunk = <<BrokenPiece(<<67>>), PcB>>
    /\ pg.pre.state = StateOutput /\ pstate = StateInput
    /\ history.currentOutput = pg.pre.history.currentOutput \o OSC_START \o <<67>>

\* the chunk is one complete marker
SingleMarker(c) == Len(c) = 1 /\ c[1].kind = "marker"

\* D, or D;<anything>
IsDCodeStrict(k) == k = <<68>> \/ HasPrefix(k, <<68, 59>>)

\* the transition table of the parser; `strict` tells which codes count as D
TransitionTable(strict) ==
    /\ pstate \in ParserStates
    /\ pg.feeds = 0 => pstate = StateNone
    /\ (pg.feeds > 0 /\ SingleMarker(pg.chunk)) =>
          LET k == pg.chunk[1].code
              h == pg.pre.history
              isD == IF strict THEN IsDCodeStrict(k) ELSE HasPrefix(k, <<68>>)
          IN IF k = <<65>> THEN pstate = StatePrompt /\ history = h
             ELSE IF k = <<66>>
             THEN pstate = StateInput /\ history = [h EXCEPT !.currentInput = <<>>]
             ELSE IF k = <<67>>
             THEN pstate = StateOutput /\ history = [h EXCEPT !.currentOutput = <<>>]
             ELSE IF isD
             THEN /\ pstate = StateNone
                  /\ history.currentInput = <<>> /\ history.currentOutput = <<>>
             ELSE ParserNow = pg.pre
    /\ (pg.feeds > 0 /\ NoCompleteMarker(pg.chunk)) =>
          /\ pstate = pg.pre.state
          /\ HasPrefix(history.currentInput, pg.pre.history.currentInput)
          /\ HasPrefix(history.currentOutput, pg.pre.history.currentOutput)

\* C18 as stated: the state is one of the four and starts as None; A, B, C and
\* D (alone or with ;exitCode) drive their transitions from any state, and no
\* other input, plain bytes or a complete marker with any other code, changes
\* the state or clears a buffer.
C18_Original == TransitionTable(TRUE)

\* C18 as amended: the same, except that every complete marker whose code
\* begins with D (Dx as well as D and D;<n>) is taken as the end of a command.
C18_StateMachine == TransitionTable(FALSE)

\* the marker Dx, arriving while output is collected, ended the command
C18_Witness ==
    /\ pg.chunk = <<PcDx>>
    /\ pg.pre.state = StateOutput /\ pg.pre.history.currentOutput # <<>>
    /\ pstate = StateNone /\ history.currentOutput = <<>>

\* a marker no branch knows, arriving while input is collected
C18_WitnessUnknown ==
    /\ pg.chunk = <<PcE>> /\ pg.pre.state = StateInput
    /\ pg.pre.history.currentInput # <<>> /\ ParserNow = pg.pre

\* the chunk is one complete D marker
SingleD(c) == SingleMarker(c) /\ IsDPiece(c[1])

\* the exit code the D markers of the catalogue carry
ExitOf(k) == IF k = <<68, 59, 49>> THEN 1 ELSE 0

\* what a D marker does; `raw` tells whether the buffers are tested as they
\* are or after trimming and cleaning
DTable(raw) ==
    (pg.feeds > 0 /\ SingleD(pg.chunk)) =>
        LET ci == pg.pre.history.currentInput
            co == pg.pre.history.currentOutput
            some == IF raw THEN ci # <<>> \/ co # <<>>
                    ELSE TrimSpace(ci) # <<>> \/ cleanTerminalOutput(co) # <<>>
            ev == [Command |-> TrimSpace(ci),
                   Output |-> cleanTerminalOutput(co),
                   ExitCode |-> ExitOf(pg.chunk[1].code)]
        IN /\ history.Events = IF some THEN Append(pg.pre.history.Events, ev)
                               ELSE pg.pre.history.Events
           /\ history.currentInput = <<>> /\ history.currentOutput = <<>>
           /\ pstate = StateNone

\* C19 as stated: a D marker appends an event whenever currentInput or
\* currentOutput is non-empty, whitespace or escape sequences alone included,
\* and none when both are empty; both buffers are then empty, the state None.
C19_Original == DTable(TRUE)

\* C19 as amended: a D marker appends an event exactly when the trimmed
\* currentInput or the cleaned currentOutput is non-empty; buffers that hold
\* only whitespace (input) or only escape sequences (output) append none.
C19_DAppends == DTable(FALSE)

\* a D;1 after output "a" and no input: one event, exit code 1
C19_Witness ==
    /\ pg.chunk = <<PcD1>>
    /\ pg.pre.history.currentInput = <<>> /\ pg.pre.history.currentOutput = <<97>>
    /\ history.Events = <<[Command |-> <<>>, Output |-> <<97>>, ExitCode |-> 1]>>

\* a D after a blank input: nothing appended
C19_WitnessBlank ==
    /\ SingleD(pg.chunk)
    /\ pg.pre.history.currentInput = <<32>> /\ pg.pre.history.currentOutput = <<>>
    /\ history.Events = <<>> /\ history.currentInput = <<>> /\ pstate = StateNone

\* C20: bytes outside markers go only to the buffer of the state active when
\* they are processed, currentOutput in Output, currentInput in Input, nowhere
\* in Prompt and None; routing changes neither the state, nor the other
\* buffer, nor the recorded events.
C20_ByteRouting ==
    (pg.feeds > 0 /\ ~HasBroken(pg.chunk)) =>
        /\ ParserNow = PiecewiseParse(pg.pre, pg.chunk)
        /\ NoCompleteMarker(pg.chunk) =>
              /\ pstate = pg.pre.state
              /\ history.Events = pg.pre.history.Events
              /\ pstate # StateInput => history.currentInput = pg.pre.history.currentInput
              /\ pstate # StateOutput => history.currentOutput = pg.pre.history.currentOutput
              /\ pstate = StateInput =>
                    history.currentInput = pg.pre.history.currentInput \o Flatten(pg.chunk)
              /\ pstate = StateOutput =>
                    history.currentOutput = pg.pre.history.currentOutput \o Flatten(pg.chunk)

\* text after a B marker in one chunk went to currentInput, and the next text
\* chunk was added to it
C20_Witness ==
    /\ pg.chunk = <<TxA>> /\ pg.pre.state = StateInput
    /\ pg.pre.history.currentInput = <<97>>
    /\ history.currentInput = <<97, 97>> /\ history.currentOutput = <<>>

\* text arriving in the Prompt state went nowhere
C20_WitnessPrompt ==
    /\ pg.chunk = <<TxA>> /\ pg.pre.state = StatePrompt /\ ParserNow = pg.pre

(***************************************************************************)
(* Claims about cleanTerminalOutput.                                       *)
(***************************************************************************)
\* the positions of s that lie inside some match of the escape pattern
Covered(s) ==
    {j \in 1..Len(s) :
        \E i \in 1..j : AnsiMatchLen(s, i) > 0 /\ j < i + AnsiMatchLen(s, i)}

\* s without the bytes at the positions of R, in order
RECURSIVE Without(_, _, _)
Without(s, R, i) ==
    IF i > Len(s) THEN <<>>
    ELSE (IF i \in R THEN <<>> ELSE <<s[i]>>) \o Without(s, R, i + 1)

\* C17 as stated: for every input, the string cleanTerminalOutput returns holds
\* no substring that matches the escape pattern, and keeps every byte that was
\* not part of an escape sequence, in the original order; the sample
\* ESC[31m "Error:" ESC[0m " File not found" cleans to "Error: File not found".
C17_NoEscapeLeft ==
    cl.done =>
        /\ \A i \in 1..Len(cl.output) : AnsiMatchLen(cl.output, i) = 0
        /\ \E R \in SUBSET Covered(cl.input) : cl.output = Without(cl.input, R, 1)
        /\ cl.input = AnsiSample =>
              cl.output = <<69, 114, 114, 111, 114, 58>>
                  \o <<32, 70, 105, 108, 101, 32, 110, 111, 116, 32, 102, 111, 117, 110, 100>>

(***************************************************************************)
(* Claims about the LLM call of an interception.                           *)
(***************************************************************************)
\* the step is the return of runInlineLLM into the loop
LLMReturns == inPc = "llm" /\ inPc' = "read"

\* the step reads one byte and stays in the loop
ReadsOn == inPc = "read" /\ inPc' = "read" /\ Len(stdinRead') = Len(stdinRead) + 1

\* C15: whether the LLM call completes, fails to resolve its configuration or
\* returns an error, the error (if any) is only printed, the line buffer is
\* reset, the loop goes on reading and forwarding keystrokes, and neither the
\* shell nor the session is ended.
C15_LLMFailureNonFatal ==
    [][/\ LLMReturns =>
            /\ call'.result.outcome \in LLMOutcomes
            /\ call'.result.errPrinted <=> call'.result.outcome # "ok"
            /\ inputBuf' = <<>>
            /\ ptyIn' = ptyIn \o <<<<13, "inj">>>>
            /\ UNCHANGED <<stdinRead, sessVars>>
       /\ ReadsOn =>
            ptyIn' = Append(ptyIn, <<stdinRead'[Len(stdinRead')][1], "fwd">>)
      ]_vars

\* after a call that ended in an error the loop read a byte and forwarded it
C15_Witness ==
    /\ call.n = 1 /\ call.result.outcome = "llmErr" /\ call.result.errPrinted
    /\ inPc = "read" /\ inputBuf = <<63>>
    /\ Len(ptyIn) = call.ptyAt + 2
    /\ ptyIn[Len(ptyIn)] = <<63, "fwd">>

\* C16 as stated: every trigger invocation hands exactly one
\* session_interception event, with the query and the history snippet, to the
\* history collaborator, whatever the outcome of the LLM call.
C16_OneEventPerTrigger ==
    (call.n > 0 /\ call.result.outcome # "none") =>
        call.result.emitted = <<ShellEvent(call.query, call.context)>>

(***************************************************************************)
(* Claims about the end of the session.                                    *)
(***************************************************************************)
ReturnedNil == mainPc \in {"returned", "exited"} /\ retErr = "nil"

C11_WitnessRead ==
    /\ ReturnedNil /\ shell = "exited"
    /\ inPc = "read" /\ relayPc = "read" /\ rz.pc = "recv"

(***************************************************************************)
(* Claims about the locks.                                                 *)
(***************************************************************************)
\* the goroutine holds the lock of the RingBuffer, of the history
HoldsRb(t) == lk.rbW = t \/ t \in lk.rbR

HoldsHist(t) == lk.histW = t \/ t \in lk.histR

\* the relay is writing r.data, pos and full; the input goroutine reads them
RbMutating == lk.relay = "rbWrite"

RbReading == lk.input = "rbRead"

\* the relay is appending to h.Events; the input goroutine reads the slice
\* header of h.Events, or the cells of the slice it was given
HistMutating == lk.relay = "hAppend"

HistHeaderReading == lk.input = "hRead"

HistCellsReading == lk.input = "iter"

\* what both readings of the claim share: the RingBuffer and the header of
\* the event list are touched under their lock only, no goroutine holds both
\* locks, and the input goroutine changes neither structure
LockDiscipline ==
    /\ [](/\ RbMutating => lk.rbW = "relay"
          /\ RbReading => "input" \in lk.rbR
          /\ HistMutating => lk.histW = "relay"
          /\ HistHeaderReading => "input" \in lk.histR
          /\ ~(RbMutating /\ RbReading)
          /\ ~(HistMutating /\ HistHeaderReading)
          /\ \A t \in {"relay", "input"} : ~(HoldsRb(t) /\ HoldsHist(t)))
    /\ [][lk'.input # lk.input => UNCHANGED <<rb, history>>]_vars

\* C12 as stated: no read of the RingBuffer or of the event list overlaps a
\* mutation of the same structure, each structure is accessed only while its
\* own lock is held, the two locks are never held together, and the input
\* task mutates neither.
C12_Original ==
    /\ LockDiscipline
    /\ [](HistCellsReading => "input" \in lk.histR)
    /\ [](~(HistMutating /\ HistCellsReading))

\* C12 as amended: the same for the RingBuffer and for the header of the
\* event list; the events of the slice GetLastEvents returned are read after
\* the history's lock is released, possibly during an append, which writes
\* only a cell behind the last one of that slice.
C12_Synchronized ==
    /\ LockDiscipline
    /\ []((HistCellsReading /\ HistMutating) => lk.snap[2] < Len(lk.pend.history.Events))
    /\ [](HistCellsReading =>
            /\ lk.snap[2] <= Len(history.Events)
            /\ lk.snap[1] >= 1 /\ lk.snap[1] <= lk.snap[2])
    /\ [][(lk.input = "iter" /\ lk'.input = "llm") =>
            lk'.ctx.events = SubSeq(history.Events, lk.snap[1], lk.snap[2])]_vars
    /\ [][Len(history'.Events) >= Len(history.Events)
          /\ SubSeq(history'.Events, 1, Len(history.Events)) = history.Events]_vars

\* the input goroutine reads the events it was given while the relay appends
C12_Witness ==
    /\ HistCellsReading /\ HistMutating
    /\ lk.histW = "relay" /\ lk.histR = {}
    /\ lk.snap = <<1, 1>> /\ Len(lk.pend.history.Events) = 2

\* the relay holds the RingBuffer's lock while the input goroutine holds the
\* history's read lock
C12_WitnessBothLocks == lk.rbW = "relay" /\ "input" \in lk.histR

(***************************************************************************)
(* Claims about a Write of exactly size bytes.                             *)
(***************************************************************************)
\* the step is a Write whose payload is as long as the buffer
ExactWrite == written' # written /\ Len(written') - Len(written) = rb.size

\* C23 as stated: a Write of exactly size bytes leaves the buffer marked
\* full with the cursor at 0, and 0 <= pos < size holds after every write.
C23_Original ==
    /\ [][ExactWrite => (rb'.full /\ rb'.pos = 0)]_vars
    /\ [](rb.pos >= 0 /\ rb.pos < rb.size)

\* C23 as amended: a Write of exactly size bytes fills the buffer (String
\* returns the payload); from cursor 0 it leaves the cursor at size and full
\* as it was, from any other cursor it leaves the cursor where it was and
\* marks the buffer full; 0 <= pos <= size holds after every write.
C23_ExactWrite ==
    /\ [][ExactWrite =>
            /\ RBString(rb') = LastN(written', rb.size)
            /\ Len(RBString(rb')) = rb.size
            /\ rb.pos = 0 => (rb'.pos = rb.size /\ rb'.full = rb.full)
            /\ rb.pos # 0 => (rb'.pos = rb.pos /\ rb'.full)]_vars
    /\ [](rb.pos >= 0 /\ rb.pos <= rb.size)

\* a fresh buffer of more than one byte after one Write of exactly size bytes
C23_Witness ==
    /\ rb.size > 1 /\ rbN = rb.size /\ Len(written) = rb.size
    /\ rb.pos = rb.size /\ ~rb.full

\* a Write of exactly size bytes onto a cursor in the middle
C23_WitnessMiddle ==
    /\ rbN = rb.size /\ Len(written) > rb.size
    /\ rb.pos > 0 /\ rb.pos < rb.size /\ rb.full

(***************************************************************************)
(* Claims about the line buffer.  Len(inputBuf) is the code's inputIdx.    *)
(***************************************************************************)
\* the step reads one byte from standard input
ReadsByte == Len(stdinRead') = Len(stdinRead) + 1

\* the byte that step read
ByteRead == stdinRead'[Len(stdinRead')][1]

\* the step wrote that byte, and nothing else, to the PTY
Forwarded == ptyIn' = Append(ptyIn, <<ByteRead, "fwd">>)

\* the line buffer without its last byte
Shorter == IF inputBuf = <<>> THEN <<>> ELSE SubSeq(inputBuf, 1, Len(inputBuf) - 1)

\* C22: a backspace or delete byte (0x08, 0x7f) removes the last byte of the
\* line buffer when it is non-empty, leaves an empty buffer empty, and is
\* forwarded to the PTY; Ctrl+C (0x03) and Ctrl+D (0x04) each reset the line
\* buffer to empty and are forwarded to the PTY unmodified.
C22_LineEditing ==
    [][ReadsByte =>
         /\ ByteRead \in {8, 127} => (inputBuf' = Shorter /\ Forwarded)
         /\ ByteRead \in {3, 4} => (inputBuf' = <<>> /\ Forwarded)]_vars

\* C29: the length index of the line buffer stays within 0..1024 (the
\* capacity); a byte typed when the buffer is full is forwarded to the PTY but
\* not stored, and a backspace on an empty buffer leaves the index at 0.
C29_LineBound ==
    /\ [](Len(inputBuf) >= 0 /\ Len(inputBuf) <= InputBufCap)
    /\ [][(ReadsByte /\ ByteRead = 97) =>
            /\ Forwarded
            /\ Len(inputBuf) < InputBufCap => inputBuf' = Append(inputBuf, 97)
            /\ Len(inputBuf) = InputBufCap => inputBuf' = inputBuf]_vars
    /\ [][(ReadsByte /\ ByteRead \in {8, 127} /\ inputBuf = <<>>) =>
            (inputBuf' = <<>> /\ Forwarded)]_vars

\* a byte typed into a full line buffer: it is on the PTY and not in the buffer
C29_Witness ==
    /\ Len(stdinRead) = InputBufCap + 1
    /\ \A i \in 1..Len(stdinRead) : stdinRead[i] = <<97, "in">>
    /\ inputBuf = [i \in 1..InputBufCap |-> 97]
    /\ ptyIn = [i \in 1..InputBufCap + 1 |-> <<97, "fwd">>]

\* a backspace on an empty line buffer
C29_WitnessEmpty ==
    /\ stdinRead = <<<<8, "in">>>> /\ inputBuf = <<>> /\ ptyIn = <<<<8, "fwd">>>>

(***************************************************************************)
(* Claims about the chunking of a stream.                                  *)
(***************************************************************************)
\* a fresh parser after the first n atoms of the stream in one chunk
WholeParse(n) ==
    ParseChunk(NewSessionParser(NewSessionHistory), Flatten(SubSeq(ck.stream, 1, n)))

\* C21: for a stream of plain text and complete markers, every splitting
\* into consecutive chunks that cuts through no marker gives the parser state,
\* the buffers and the events that the whole stream gives as one chunk; within
\* a chunk the bytes before the first marker are routed by the state held
\* before the chunk and the bytes after each marker by the state it set.
C21_ChunkingIndependent ==
    /\ [](ParserNow = WholeParse(ck.pos))
    /\ [][ck'.pos > ck.pos =>
            [state |-> pstate', history |-> history'] =
               PiecewiseParse(ParserNow, SubSeq(ck.stream, ck.pos + 1, ck'.pos))]_vars

\* a whole command, B a C D;1, fed in three chunks
C21_Witness ==
    /\ ck.stream = <<PcB, TxA, PcC, PcD1>>
    /\ ck.pos = 4 /\ ck.chunks = 3
    /\ Len(history.Events) = 1
    /\ history.Events[1].Command = <<97>> /\ history.Events[1].Output = <<>>
    /\ history.Events[1].ExitCode = 1

\* the text "a a" after B cut in the middle of its white space: one chunk per
\* atom
C21_WitnessText ==
    /\ ck.stream = <<PcB, TxA, TxSpace, TxA>> /\ ck.pos = 4 /\ ck.chunks = 4
    /\ history.currentInput = <<97, 32, 97>>

(***************************************************************************)
(* Claims about the output relay.                                          *)
(***************************************************************************)
IsPrefixOf(s, t) == Len(s) <= Len(t) /\ SubSeq(t, 1, Len(s)) = s

\* C27: each chunk read from the PTY goes to the terminal, then to the
\* RingBuffer, then to the parser, before the next chunk is read: what the
\* parser consumed is a prefix of what the RingBuffer was given, which is a
\* prefix of what the terminal was given; they differ by at most the chunk in
\* flight, and all three see the bytes in the order the shell wrote them.
C27_FanOutOrder ==
    /\ IsPrefixOf(parsed, written) /\ IsPrefixOf(written, termOut)
    /\ IsPrefixOf(termOut, shellOut)
    /\ relayPc \in {"none", "read", "done", "stdout"} =>
          (parsed = written /\ written = termOut)
    /\ relayPc = "stdout" => IsPrefixOf(termOut \o relayChunk, shellOut)
    /\ relayPc = "rb" => (parsed = written /\ termOut = written \o relayChunk)
    /\ relayPc = "parser" => (written = termOut /\ written = parsed \o relayChunk)
    /\ RBString(rb) = LastN(written, rb.size)

\* a second chunk is on the terminal and in the RingBuffer and not yet with
\* the parser, which holds the first
C27_Witness ==
    /\ relayPc = "parser" /\ relayChunk # <<>> /\ parsed # <<>>
    /\ termOut = parsed \o relayChunk /\ written = termOut

\* a chunk is on the terminal only
C27_WitnessTerminal ==
    /\ relayPc = "rb" /\ relayChunk # <<>> /\ termOut = written \o relayChunk

\* C25: the initial application of the terminal's dimensions to the PTY
\* happens exactly once at startup and is complete before any byte of shell
\* output is produced or relayed to the terminal.
C25_ResizeBeforeOutput ==
    /\ shellOut # <<>> => rz.applied >= 1
    /\ termOut # <<>> => rz.applied >= 1
    /\ rz.winches = 0 => rz.applied <= 1

(***************************************************************************)
(* Claims about a failed start.                                            *)
(***************************************************************************)
\* runSession has returned an error
StartFailed == retErr = "error" /\ mainPc \in {"returned", "exited"}

\* C28: if the PTY allocation, the shell spawn or the raw-mode acquisition
\* fails, runSession returns a non-nil error, never starts the output relay
\* or the input task, leaves the terminal mode as it was, closes the PTY if it
\* had opened it, and leaves no session task and no spawned shell running.
C28_FatalStartup ==
    /\ (mainPc \in {"returned", "exited"} /\ ~rawAcquired) => retErr = "error"
    /\ StartFailed =>
         /\ relayPc = "none" /\ inPc = "read" /\ stdinRead = <<>>
         /\ termMode = "cooked" /\ restoreCount = 0 /\ ~rawAcquired
         /\ ~ptyOpen /\ (PtyStarted => closeCount = 1)
         /\ shell # "running"
         /\ rz.pc = "none"

(***************************************************************************)
(* Claims about the keyboard during an LLM call.                           *)
(***************************************************************************)
\* C24: from the start of the LLM invocation until it completes or fails the
\* input task reads no byte from standard input and writes no byte to the
\* PTY; the bytes typed meanwhile are not dropped: they are read and processed
\* in their original order once the call has ended.
C24_ModalCall ==
    /\ [][(inPc = "llm" /\ inPc' = "llm") =>
            (stdinRead' = stdinRead /\ ptyIn' = ptyIn /\ inputBuf' = inputBuf)]_vars
    /\ [][(inPc = "llm" /\ inPc' = "read") =>
            (stdinRead' = stdinRead /\ ty' = ty /\ ptyIn' = ptyIn \o RedrawWrites)]_vars
    /\ [](ty.typed = BytesOf(stdinRead) \o ty.queue)
    /\ [](BytesOf(SelectSeq(ptyIn, IsFwd)) = BytesOf(SelectSeq(stdinRead, IsIn)))
    /\ [](ty.queue # <<>> => <>(ty.queue = <<>> /\ inPc # "llm"))

\* "a" and "\r" were typed while the call for "??" ran; the call is over and
\* both were read after it, in that order, and forwarded
C24_Witness ==
    /\ call.n = 1 /\ call.result.outcome # "none" /\ inPc = "read"
    /\ ty.typed = <<63, 63, 13, 97, 13>> /\ ty.queue = <<>>
    /\ BytesOf(stdinRead) = ty.typed
    /\ call.ptyAt = 3
    /\ SubSeq(ptyIn, 4, Len(ptyIn)) = <<<<13, "inj">>, <<97, "fwd">>, <<13, "fwd">>>>

\* the call runs and two typed bytes wait in the queue
C24_WitnessWaiting ==
    /\ inPc = "llm" /\ ty.queue = <<97, 13>> /\ Len(stdinRead) = 3

(***************************************************************************)
(* Claims about the propagation of resizes.                                *)
(***************************************************************************)
\* the PTY can still take a size: it is open and the process lives
PtyLive == ptyOpen /\ ProcessAlive

\* C26: whenever and however often resize notifications arrive, also when
\* one finds the channel of capacity 1 full, the resize task applies the
\* terminal's current dimensions to the PTY after each notification it
\* receives, and under fair scheduling the PTY's dimensions end up equal to
\* the terminal's as of the last notification, for as long as the session
\* has the PTY open; the initial send never blocks the main task forever.
C26_ResizePropagates ==
    /\ [][(rz.pc = "recv" /\ rz'.pc = "get") => (rz.ch = 1 /\ rz'.ch = 0)]_vars
    /\ [][(rz.pc = "get" /\ rz'.pc = "set") => rz'.got = rz.termSize]_vars
    /\ [][(rz.pc = "set" /\ rz'.pc = "recv" /\ ptyOpen) =>
            (rz'.ptySize = rz.got /\ rz'.applied = rz.applied + 1)]_vars
    /\ [](rz.pc \in {"get", "set"} => <>(rz.pc = "recv" \/ ~ProcessAlive))
    /\ [](rz.ch = 1 => <>(rz.pc = "get" \/ ~ProcessAlive))
    /\ <>[](rz.ptySize = rz.termSize \/ ~PtyLive)
    /\ [](mainPc = "sendWinch" => <>(mainPc = "makeRaw"))

\* two resizes came while the initial notification was queued and were
\* dropped; the one application that followed set the PTY to the terminal's
\* latest size
C26_Witness ==
    /\ rz.winches = 2 /\ rz.dropped = 2 /\ rz.applied = 1
    /\ rz.pc = "recv" /\ rz.ch = 0
    /\ rz.ptySize = rz.termSize /\ PtyLive

\* a resize is queued when the main goroutine comes to send the initial
\* notification: the send has to wait for the resize goroutine
C26_WitnessBlocked ==
    /\ mainPc = "sendWinch" /\ rz.ch = 1 /\ rz.pc = "recv" /\ rz.winches >= 1

(***************************************************************************)
(* Claims about the command text and the B marker.                         *)
(***************************************************************************)
\* the atoms fed so far
FedAtoms == SubSeq(ck.stream, 1, ck.pos)

\* no B marker among them: the markers of the shipped scripts only
OnlyDAC == \A i \in 1..ck.pos : ck.stream[i] # PcB

\* the text that follows atom i up to the next marker or to atom hi
RECURSIVE TextRun(_, _, _)
TextRun(st, i, hi) ==
    IF i + 1 > hi \/ st[i + 1].kind # "text" THEN <<>>
    ELSE st[i + 1].bytes \o TextRun(st, i + 1, hi)

\* the texts that follow the B markers fed so far
AfterB == {TextRun(ck.stream, i, ck.pos) : i \in {j \in 1..ck.pos : ck.stream[j] = PcB}}

\* C30: on a stream with D, A and C markers only (what the shipped zsh, bash
\* and fish scripts emit) every CommandEvent has an empty Command, since the
\* bytes that arrive in the Prompt or None state are discarded; command text
\* is captured only from the bytes after a B marker up to the next marker.
C30_CommandNeedsB ==
    /\ OnlyDAC =>
          /\ \A i \in 1..Len(history.Events) : history.Events[i].Command = <<>>
          /\ history.currentInput = <<>>
          /\ pstate # StateInput
    /\ \A i \in 1..Len(history.Events) :
          \/ history.Events[i].Command = <<>>
          \/ \E t \in AfterB : history.Events[i].Command = TrimSpace(t)
    /\ history.currentInput # <<>> => history.currentInput \in AfterB
    /\ pstate \in {StatePrompt, StateNone} => history.currentInput \in AfterB \cup {<<>>}

\* a C a D;1: the text before C came in the None state and is gone; the
\* event has the output and the exit code and no command
C30_Witness ==
    /\ ck.stream = <<TxA, PcC, TxA, PcD1>>
    /\ ck.pos = Len(ck.stream) /\ OnlyDAC
    /\ Len(history.Events) = 1
    /\ history.Events[1] = [Command |-> <<>>, Output |-> <<97>>, ExitCode |-> 1]

\* A a C a: the prompt text is gone, the output is being collected
C30_WitnessPrompt ==
    /\ ck.stream = <<PcA, TxA, PcC, TxA>> /\ ck.pos = 4
    /\ pstate = StateOutput
    /\ history.currentInput = <<>> /\ history.currentOutput = <<97>>

\* B a C D;1: the same with a B marker has the command
C30_WitnessB ==
    /\ ck.stream = <<PcB, TxA, PcC, PcD1>> /\ ck.pos = 4
    /\ Len(history.Events) = 1 /\ history.Events[1].Command = <<97>>

====
